---- MODULE Spec2Model ----
(***************************************************************************)
(* The evaluation pipeline of finalsmartfactory: EvaluatorRunner.main in   *)
(* its two variants (azure-functions/ and backend/azure_functions/), run   *)
(* over a batch of trace documents against the evaluator catalog, writing  *)
(* Evaluation documents to the "evaluations" Cosmos container.             *)
(*                                                                         *)
(* Each delivery of the batch is one run r of main.  A run is a sequence   *)
(* of steps; the steps of overlapping runs interleave, and the container   *)
(* calls read_item and upsert_item are the points where runs see each      *)
(* other.                                                                  *)
(*                                                                         *)
(* The catalog of a run is what its query of the "evaluators" container    *)
(* returns: the documents of status 'active' for azure-functions main, of  *)
(* status 'enabled' for the backend's.  create_evaluator of                *)
(* backend/routers/evaluators.py adds a document to that container at any  *)
(* time, whatever the runs of main are doing.                              *)
(*                                                                         *)
(* Representation.  Python None and "" are both falsy and are both written *)
(* "" for string fields.  An optional number is a sequence: <<>> is None,  *)
(* <<n>> is the number n.  Scores are in units of 1/10000, sampling rates  *)
(* and random draws in tenths, delays and durations in milliseconds.       *)
(*                                                                         *)
(* shared/llm.py call_llm, the retrying client the LLM-backed scoring      *)
(* capabilities use, is modelled as one call with its own variables.  A    *)
(* Python str is the sequence of the code points of its characters.        *)
(*                                                                         *)
(* normalize_trace is modelled as calls on one trace document whose text   *)
(* fields are absent, null or a str.  TraceGenerator.main, in its two      *)
(* variants, is modelled as timer invocations that share the document      *)
(* "trace_counter" of the "metrics" container and the "traces" container.  *)
(***************************************************************************)
EXTENDS Integers, Sequences, FiniteSets, TLC

\* ------------------------------------------------------------------ bounds
\* Deliveries of the batch (runs of main) in one behaviour.
MaxRuns == 2

Runs == 1..MaxRuns

\* The largest max_retries call_llm is called with.
MaxRetries == 4

\* Calls of normalize_trace on the trace document.
MaxCalls == 2

\* Timer invocations of TraceGenerator.main in one behaviour.
MaxInvocations == 2

Invocations == 1..MaxInvocations

\* ------------------------------------------------------------ value shapes
None == ""
NoNum == <<>>
Num(n) == <<n>>
IsNum(x) == Len(x) = 1
Val(x) == x[1]

\* A configuration value as dict.get(key, default) sees it: the key absent,
\* present with JSON null, or present with a number.
Absent == [kind |-> "absent", val |-> 0]
Null == [kind |-> "null", val |-> 0]
Number(n) == [kind |-> "num", val |-> n]

\* dict.get(key, default): the default only when the key is absent.
Get(v, default) == IF v.kind = "absent" THEN Number(default) ELSE v

\* ----------------------------------------------------------------- inputs
\* Trace documents of the batch.
T1 == [trace_id |-> "t1", id |-> "d1"]
T2 == [trace_id |-> None, id |-> "t2"]

T3 == [trace_id |-> "t3", id |-> "d3"]
\* A document with neither trace_id nor id.
T0 == [trace_id |-> None, id |-> None]

\* Evaluator documents of the "evaluators" container.
E1 ==
  [id |-> "e1", score_name |-> "n1", template_id |-> "tpl1",
   sampling_rate |-> Number(5), delay_ms |-> Absent,
   status |-> "active"]
E2 ==
  [id |-> "e2", score_name |-> "n2", template_id |-> "tpl2",
   sampling_rate |-> Absent, delay_ms |-> Number(20),
   status |-> "active"]
\* execution = {"sampling_rate": null}: routers/evaluators.py stores the
\* execution dict of the request as it came.
ENull ==
  [id |-> "e0", score_name |-> "n0", template_id |-> "tpl1",
   sampling_rate |-> Null, delay_ms |-> Absent,
   status |-> "active"]

\* execution = {"sampling_rate": 1.0, "delay_ms": 0}
EAlways ==
  [id |-> "e1", score_name |-> "n1", template_id |-> "tpl1",
   sampling_rate |-> Number(10), delay_ms |-> Number(0),
   status |-> "active"]
\* execution = {"sampling_rate": 0.0, "delay_ms": 20}
ENever ==
  [id |-> "e3", score_name |-> "n3", template_id |-> "tpl1",
   sampling_rate |-> Number(0), delay_ms |-> Number(20),
   status |-> "active"]
\* execution = {"sampling_rate": -0.5} and {"sampling_rate": 1.5}
ENegative ==
  [id |-> "e4", score_name |-> "n4", template_id |-> "tpl1",
   sampling_rate |-> Number(-5), delay_ms |-> Absent,
   status |-> "active"]
EAbove ==
  [id |-> "e5", score_name |-> "n5", template_id |-> "tpl2",
   sampling_rate |-> Number(15), delay_ms |-> Absent,
   status |-> "active"]
\* Evaluator documents with no id, and with no template id.
ENoId ==
  [id |-> None, score_name |-> "n6", template_id |-> "tpl1",
   sampling_rate |-> Absent, delay_ms |-> Absent,
   status |-> "active"]
ENoTemplate ==
  [id |-> "e7", score_name |-> "n7", template_id |-> None,
   sampling_rate |-> Absent, delay_ms |-> Number(20),
   status |-> "active"]

\* An evaluator document with the id of a template nothing is registered
\* for.
EUnknown ==
  [id |-> "e8", score_name |-> "n8", template_id |-> "tplX",
   sampling_rate |-> Absent, delay_ms |-> Absent,
   status |-> "active"]

\* A second evaluator document with the score_name of EAlways: create_evaluator
\* gives every evaluator a fresh uuid4 id and stores the score_name of the
\* request as it came.
ETwin ==
  [id |-> "e9", score_name |-> "n1", template_id |-> "tpl2",
   sampling_rate |-> Number(10), delay_ms |-> Absent,
   status |-> "active"]

\* What create_evaluator is called with: score_name, template, status and
\* execution of the request, stored as they came. The template is a dict
\* of any keys; here it has no "id".
Payloads ==
  { [score_name |-> "n9", template_id |-> None,
     sampling_rate |-> Number(10), delay_ms |-> Absent,
     status |-> "active"] }

\* Values of str(uuid.uuid4()).
Uuids == {"u1"}

\* Values of random.random(), in tenths: a float of [0, 1).
Draws == {0, 5, 9}

\* What run_evaluator(evaluator_id, normalized) can do: return a result dict
\* or raise, each after some time.
EngineOutcomes ==
  { [raised |-> FALSE, msg |-> "",
     result |-> [score |-> Num(8333), raw_output |-> "0.8333333",
                 classification |-> "pass"],
     elapsed_ms |-> 7],
    [raised |-> FALSE, msg |-> "",
     result |-> [score |-> NoNum, raw_output |-> "no result",
                 classification |-> "failed"],
     elapsed_ms |-> 30],
    [raised |-> FALSE, msg |-> "",
     result |-> [score |-> Num(1650), raw_output |-> "0.165",
                 classification |-> None],
     elapsed_ms |-> 12],
    [raised |-> TRUE, msg |-> "boom",
     result |-> [score |-> NoNum, raw_output |-> "", classification |-> ""],
     elapsed_ms |-> 1] }

VARIABLES
  documents,       \* the batch: a sequence of trace documents
  catalog,         \* the "evaluators" container: its documents, in order
  evaluators,      \* evaluators[r]: where in the container the documents
                   \* are that the catalog query gave run r, in order
  store,           \* the evaluations container: a set of documents
  audit,           \* audit[r]: the entries run r emitted to the audit sink
  clock,           \* the wall clock read by datetime.now
  variant,         \* variant[r]: which main run r executes
  pc,              \* pc[r]: where run r is in main
  ei,              \* ei[r]: index of the evaluator run r is at
  ti,              \* ti[r]: index of the trace run r is at
  executed_count,  \* executed_count[r]: main's counter for the evaluator
  result,          \* result[r]: what the scoring call of the unit did
  doc,             \* doc[r]: the document run r built for its unit
  io,              \* io[r]: how the last container call of run r ended
  outcome,         \* outcome[r][<<e, t>>]: how the unit ended in run r
  raisedAt,        \* raisedAt[r]: the units whose scoring call raised
  upserts,         \* the upserts the container applied, in order
  calls,           \* calls[r]: calls run r made, by callee
  drawn,           \* drawn[r]: the draw the sampling gate of run r compared
  max_retries,     \* call_llm: the argument max_retries
  attempt,         \* call_llm: the local attempt
  llm_pc,          \* call_llm: where the call is
  response,        \* call_llm: what the last remote call did
  returned,        \* call_llm: the value returned
  slept,           \* call_llm: the sleep_time of every time.sleep, in order
  created,         \* call_llm: remote calls made
  failures,        \* call_llm: remote calls that raised
  n_trace,         \* normalize_trace: the trace document passed
  normalized,      \* normalize_trace: the dicts returned, in call order
  counter,         \* the value of the "trace_counter" document, if it exists
  traces,          \* the ids of the documents of the "traces" container
  g_variant,       \* g_variant[p]: which TraceGenerator.main p executes
  g_pc,            \* g_pc[p]: where invocation p is in main
  todo,            \* todo[p]: iterations of main's loop still to run
  g_doc,           \* g_doc[p]: doc["value"] in get_next_trace_number
  next_no,         \* next_no[p]: next_no in get_next_trace_number
  got              \* got[p]: the numbers get_next_trace_number returned to p

vars ==
  <<documents, catalog, evaluators, store, audit, clock, variant, pc, ei, ti,
    executed_count, result, doc, io, outcome, raisedAt, upserts, calls,
    drawn, max_retries, attempt, llm_pc, response, returned, slept, created,
    failures, n_trace, normalized, counter, traces, g_variant, g_pc, todo,
    g_doc, next_no, got>>

\* The variables of call_llm, and those of EvaluatorRunner.main.
llmVars ==
  <<max_retries, attempt, llm_pc, response, returned, slept, created,
    failures>>
mainVars ==
  <<documents, catalog, evaluators, store, audit, clock, variant, pc, ei, ti,
    executed_count, result, doc, io, outcome, raisedAt, upserts, calls,
    drawn>>
\* The variables of normalize_trace, and those of TraceGenerator.main.
normVars == <<n_trace, normalized>>
genVars == <<counter, traces, g_variant, g_pc, todo, g_doc, next_no, got>>

\* ------------------------------------------------------- pure definitions
\* TraceId with id taken before trace_id.
TraceId_IdFirst(trace) == IF trace.id # None THEN trace.id ELSE trace.trace_id

\* trace.get("trace_id") or trace.get("id")
TraceId(trace) == IF trace.trace_id # None THEN trace.trace_id ELSE trace.id

\* f"{trace_id}:{evaluator_id}"
EvalId(trace_id, evaluator_id) == trace_id \o ":" \o evaluator_id

\* not evaluator_id or not template_id
InvalidEvaluator(ev) == ev.id = None \/ ev.template_id = None

\* floor(log2(n / d)) for positive n and d.
RECURSIVE Log2(_, _)
Log2(n, d) ==
  IF n < d THEN Log2(2 * n, d) - 1
  ELSE IF n >= 2 * d THEN Log2(n, 2 * d) + 1
  ELSE 0

\* (2 ^ n) % m
RECURSIVE Pow2Mod(_, _)
Pow2Mod(n, m) == IF n = 0 THEN 1 % m ELSE (2 * Pow2Mod(n - 1, m)) % m

\* The sign of float(x / 10000) - x / 10000 for x = 100 * q + 50, x > 0: the
\* float is the multiple of 2 ^ (e - 52) nearest to (2 * q + 1) / 200, where
\* 2 ^ e is the power of 2 at or below it. (2 * q + 1) * 2 ^ (49 - e) / 25
\* is never half way between two integers.
FloatError(x) ==
  LET n == x \div 50
      rem == (n * Pow2Mod(49 - Log2(x, 10000), 25)) % 25
  IN  IF rem = 0 THEN 0 ELSE IF 2 * rem < 25 THEN -1 ELSE 1

\* Round2 as the rounding of the decimal x / 10000, a tie to the even one.
Round2_Decimal(x) ==
  LET q == x \div 100
      m == x % 100
  IN  IF m < 50 THEN q * 100
      ELSE IF m > 50 THEN (q + 1) * 100
      ELSE IF q % 2 = 0 THEN q * 100 ELSE (q + 1) * 100

\* round(float(score), 2) on a score in 1/10000, not negative: the multiple
\* of 1/100 nearest to the float of the score. On n.nn5 the float decides: it
\* is below the decimal or above it, or it is the decimal (0.125, 0.375,
\* 0.625, 0.875 and these plus an integer) and the tie goes to the even one.
Round2(x) ==
  LET q == x \div 100
      m == x % 100
  IN  IF m < 50 THEN q * 100
      ELSE IF m > 50 THEN (q + 1) * 100
      ELSE IF FloatError(x) < 0 THEN q * 100
      ELSE IF FloatError(x) > 0 THEN (q + 1) * 100
      ELSE IF q % 2 = 0 THEN q * 100 ELSE (q + 1) * 100

\* RoundScore with the score kept as the engine gave it.
RoundScore_Unrounded(score) == score

\* if isinstance(score, (int, float)): score = round(float(score), 2)
RoundScore(score) == IF IsNum(score) THEN Num(Round2(Val(score))) ELSE score

\* Status with everything but "pass" taken as a failure.
Status_PassOnly(classification) ==
  IF classification = "pass" THEN "completed" ELSE "failed"

\* "completed" if classification != "failed" else "failed"
Status(classification) ==
  IF classification # "failed" THEN "completed" ELSE "failed"

\* Scored with the except branch recording the failure message only.
Scored_MessageOnly(o) ==
  IF o.raised
  THEN [score |-> NoNum, raw_output |-> o.msg, classification |-> None,
        status |-> Status(None)]
  ELSE [score |-> RoundScore(o.result.score),
        raw_output |-> o.result.raw_output,
        classification |-> o.result.classification,
        status |-> Status(o.result.classification)]

\* The score, raw_output, classification and status main holds after the
\* try/except around run_evaluator.
Scored(o) ==
  IF o.raised
  THEN [score |-> NoNum, raw_output |-> o.msg, classification |-> "failed",
        status |-> "failed"]
  ELSE [score |-> RoundScore(o.result.score),
        raw_output |-> o.result.raw_output,
        classification |-> o.result.classification,
        status |-> Status(o.result.classification)]

\* The Evaluation document of a unit.
EvaluationDoc(ev, trace_id, o, now) ==
  LET s == Scored(o)
  IN  [id |-> EvalId(trace_id, ev.id),
       trace_id |-> trace_id,
       evaluator |-> ev.score_name,
       evaluator_id |-> ev.id,
       template_id |-> ev.template_id,
       score |-> s.score,
       classification |-> s.classification,
       raw_output |-> s.raw_output,
       status |-> s.status,
       duration_ms |-> o.elapsed_ms,
       timestamp |-> now]

\* f"Ran evaluator '{evaluator_id}' on {executed_count}/{trace_count} traces"
AuditDetails(evaluator_id, executed, total) ==
  "Ran evaluator '" \o evaluator_id \o "' on " \o ToString(executed)
    \o "/" \o ToString(total) \o " traces"

AuditEntry(evaluator_id, executed, total) ==
  [action |-> "Evaluator Run Completed", type |-> "evaluator",
   user |-> "system", details |-> AuditDetails(evaluator_id, executed, total)]

\* ---------------------------------------------- the evaluations container
\* The container is partitioned by /trace_id: an item is identified by its
\* partition key together with its id.
\* ReadItem with the item id passed as the partition key as well.
ReadItem_WrongPartition(items, item, partition_key) ==
  {d \in items : d.id = item /\ d.trace_id = item}

\* read_item(item, partition_key): the items found (none: not found).
ReadItem(items, item, partition_key) ==
  {d \in items : d.id = item /\ d.trace_id = partition_key}

\* UpsertItem as a plain insert.
UpsertItem_Insert(items, body) == items \cup {body}

\* UpsertItem as a patch that keeps the timestamp of the item it replaces.
UpsertItem_Patch(items, body) ==
  LET old == {d \in items : d.id = body.id /\ d.trace_id = body.trace_id}
  IN  (items \ old)
        \cup {[body EXCEPT !.timestamp = d.timestamp] : d \in old}
        \cup (IF old = {} THEN {body} ELSE {})

\* upsert_item(body): replace the item of the same identity, or insert.
UpsertItem(items, body) ==
  {d \in items : ~(d.id = body.id /\ d.trace_id = body.trace_id)} \cup {body}

\* --------------------------------------------------------------- the runs
\* "af" is azure-functions/EvaluatorRunner, "be" is
\* backend/azure_functions/EvaluatorRunner.
Variants == {"af", "be"}

NoResult == [raised |-> FALSE, msg |-> "none"]
NoDoc == [id |-> None]
NoCalls ==
  [read_item |-> 0, run_evaluator |-> 0, upsert_item |-> 0, sleep |-> 0,
   audit_log |-> 0, random |-> 0]

\* c.status = 'active' in azure-functions main, c.status = 'enabled' in
\* backend main.
QueryStatus(v) == IF v = "af" THEN "active" ELSE "enabled"

\* SELECT * FROM c WHERE c.status = status: the places of the documents the
\* query returns.
Query(container, status) ==
  SelectSeq([i \in 1..Len(container) |-> i],
            LAMBDA i : container[i].status = status)

\* A unit is a document of the container, by its place, with a trace of
\* the batch, by its place.
Units == (1..Len(catalog)) \X (1..Len(documents))
\* The place in the container of `ev`, 0 outside the loop.
Pos(r) == IF ei[r] \in 1..Len(evaluators[r]) THEN evaluators[r][ei[r]] ELSE 0
Unit(r) == <<Pos(r), ti[r]>>
Ev(r) == catalog[Pos(r)]
\* The places of the documents the catalog query gave run r.
Loaded(r) == {evaluators[r][i] : i \in 1..Len(evaluators[r])}
\* The loop `for ev in evaluators` of run r is past the document at place e.
Past(r, e) ==
  \E i \in 1..Len(evaluators[r]) : evaluators[r][i] = e /\ ei[r] > i
Trace(r) == documents[ti[r]]
trace_count == Len(documents)

\* A run that has left main: by return, by the catalog query's failure, or
\* by an exception nothing caught.
Ended == {"done", "load_failed", "crashed"}

Called(r, f) == calls' = [calls EXCEPT ![r][f] = @ + 1]
Responded(r, how) == io' = [io EXCEPT ![r] = how]
Goto(r, l) == pc' = [pc EXCEPT ![r] = l]
\* Continue with `break` in place of `continue` in azure-functions main: the
\* inner loop is left for the audit entry.
Continue_Breaks(r, how) ==
  /\ outcome' = [outcome EXCEPT ![r][Unit(r)] = how]
  /\ IF variant[r] = "af"
     THEN /\ Goto(r, "audit")
          /\ UNCHANGED <<ei, ti>>
     ELSE /\ ei' = [ei EXCEPT ![r] = @ + 1]
          /\ Goto(r, "ev")
          /\ UNCHANGED ti

\* `continue`, or the end of the loop body, in the inner loop: the unit ends
\* as `how` and the loop goes on with the next trace ("af") or the next
\* evaluator ("be").
Continue(r, how) ==
  /\ outcome' = [outcome EXCEPT ![r][Unit(r)] = how]
  /\ IF variant[r] = "af"
     THEN /\ ti' = [ti EXCEPT ![r] = @ + 1]
          /\ Goto(r, "trace")
          /\ UNCHANGED ei
     ELSE /\ ei' = [ei EXCEPT ![r] = @ + 1]
          /\ Goto(r, "ev")
          /\ UNCHANGED ti
\* The unit goes on to its next step.
Proceed(r, l) ==
  /\ Goto(r, l)
  /\ UNCHANGED <<ei, ti, outcome>>
\* An exception leaves main.
Crash(r) == Proceed(r, "crashed")

\* Start without `if not documents: return`.
Start_NoGuard(r) ==
  /\ pc[r] = "start"
  /\ Goto(r, "load")
  /\ UNCHANGED <<documents, catalog, evaluators, store, audit, clock, variant, ei, ti,
                 executed_count, result, doc, io, outcome, raisedAt, upserts,
                 calls, drawn,
                 llmVars, normVars, genVars>>

\* main is entered: `if not documents: return`.
Start(r) ==
  /\ pc[r] = "start"
  /\ IF documents = <<>> THEN Goto(r, "done") ELSE Goto(r, "load")
  /\ UNCHANGED <<documents, catalog, evaluators, store, audit, clock, variant, ei, ti,
                 executed_count, result, doc, io, outcome, raisedAt, upserts,
                 calls,
                 drawn,
                 llmVars, normVars, genVars>>

\* LoadEvaluators with the failure of the query logged and the loops entered
\* all the same.
LoadEvaluators_IgnoresFailure(r) ==
  /\ pc[r] = "load"
  /\ LET found == Query(catalog, QueryStatus(variant[r]))
     IN  /\ evaluators' = [evaluators EXCEPT ![r] = found]
         /\ \E failed \in BOOLEAN :
              /\ Responded(r, IF failed THEN "query_error" ELSE "queried")
              /\ IF found = <<>> THEN Goto(r, "done")
                 ELSE IF variant[r] = "af" THEN Goto(r, "ev")
                 ELSE Goto(r, "trace")
  /\ ei' = [ei EXCEPT ![r] = 1]
  /\ ti' = [ti EXCEPT ![r] = 1]
  /\ UNCHANGED <<documents, catalog, store, audit, clock, variant,
                 executed_count, result, doc, outcome, raisedAt, upserts,
                 calls, drawn,
                 llmVars, normVars, genVars>>

\* The catalog query: it raises (main returns), or returns the documents
\* of the container with the status the variant asks for
\* (`if not evaluators: return`), and the outer loop is entered.
LoadEvaluators(r) ==
  /\ pc[r] = "load"
  /\ \E failed \in BOOLEAN :
       IF failed
       THEN /\ Responded(r, "query_error")
            /\ Goto(r, "load_failed")
            /\ UNCHANGED evaluators
       ELSE LET found == Query(catalog, QueryStatus(variant[r]))
            IN  /\ Responded(r, "queried")
                /\ evaluators' = [evaluators EXCEPT ![r] = found]
                /\ IF found = <<>> THEN Goto(r, "done")
                   ELSE IF variant[r] = "af" THEN Goto(r, "ev")
                   ELSE Goto(r, "trace")
  /\ ei' = [ei EXCEPT ![r] = 1]
  /\ ti' = [ti EXCEPT ![r] = 1]
  /\ UNCHANGED <<documents, catalog, store, audit, clock, variant,
                 executed_count, result, doc, outcome, raisedAt, upserts,
                 calls, drawn,
                 llmVars, normVars, genVars>>

\* ------------------------------------------ backend/routers/evaluators.py
\* create_evaluator(payload): the item of the request under a new id is
\* added to the container, or create_item raises and the request ends in
\* HTTP 500. No run has a unit of the new document yet.
CreateEvaluator(payload, evaluator_id) ==
  /\ \A i \in 1..Len(catalog) : catalog[i].id # evaluator_id
  /\ \E failed \in BOOLEAN :
       IF failed
       THEN UNCHANGED <<catalog, outcome>>
       ELSE LET item == [id |-> evaluator_id,
                         score_name |-> payload.score_name,
                         template_id |-> payload.template_id,
                         sampling_rate |-> payload.sampling_rate,
                         delay_ms |-> payload.delay_ms,
                         status |-> payload.status]
            IN  /\ catalog' = Append(catalog, item)
                /\ outcome' = [r \in Runs |->
                     [u \in (1..Len(catalog) + 1) \X (1..Len(documents)) |->
                        IF u \in Units THEN outcome[r][u] ELSE "PENDING"]]
  /\ UNCHANGED <<documents, evaluators, store, audit, clock, variant, pc, ei,
                 ti, executed_count, result, doc, io, raisedAt, upserts,
                 calls, drawn,
                 llmVars, normVars, genVars>>

\* ------------------------------------- azure-functions/EvaluatorRunner.main
\* NextEvaluator without `executed_count = 0`: the count of the evaluator
\* before is carried on.
NextEvaluator_NoReset(r) ==
  /\ variant[r] = "af"
  /\ pc[r] = "ev"
  /\ IF ei[r] > Len(evaluators[r])
     THEN /\ Goto(r, "done")
          /\ UNCHANGED <<ei, ti, outcome>>
     ELSE IF InvalidEvaluator(Ev(r))
     THEN /\ ei' = [ei EXCEPT ![r] = @ + 1]
          /\ outcome' = [outcome EXCEPT ![r] =
               [u \in Units |-> IF u[1] = Pos(r) THEN "INVALID_EVALUATOR"
                                ELSE @[u]]]
          /\ UNCHANGED <<pc, ti>>
     ELSE /\ ti' = [ti EXCEPT ![r] = 1]
          /\ Goto(r, "trace")
          /\ UNCHANGED <<ei, outcome>>
  /\ UNCHANGED <<documents, catalog, evaluators, store, audit, clock, variant, result,
                 doc, io, raisedAt, upserts, calls, executed_count,
                 drawn,
                 llmVars, normVars, genVars>>

\* `for ev in evaluators`: the end of the loop, an invalid evaluator
\* (`continue`), or the start of the evaluator's pass over the batch.
NextEvaluator(r) ==
  /\ variant[r] = "af"
  /\ pc[r] = "ev"
  /\ IF ei[r] > Len(evaluators[r])
     THEN /\ Goto(r, "done")
          /\ UNCHANGED <<ei, ti, executed_count, outcome>>
     ELSE IF InvalidEvaluator(Ev(r))
     THEN /\ ei' = [ei EXCEPT ![r] = @ + 1]
          /\ outcome' = [outcome EXCEPT ![r] =
               [u \in Units |-> IF u[1] = Pos(r) THEN "INVALID_EVALUATOR"
                                ELSE @[u]]]
          /\ UNCHANGED <<pc, ti, executed_count>>
     ELSE /\ executed_count' = [executed_count EXCEPT ![r] = 0]
          /\ ti' = [ti EXCEPT ![r] = 1]
          /\ Goto(r, "trace")
          /\ UNCHANGED <<ei, outcome>>
  /\ UNCHANGED <<documents, catalog, evaluators, store, audit, clock, variant, result,
                 doc, io, raisedAt, upserts, calls,
                 drawn,
                 llmVars, normVars, genVars>>

\* The gate with `>=` in place of `>`.
SampledOut_Strict(draw, sampling_rate) == draw >= sampling_rate

\* The gate with the comparison turned round.
SampledOut_Inverted(draw, sampling_rate) == draw < sampling_rate

\* if random.random() > sampling_rate: ... continue
SampledOut(draw, sampling_rate) == draw > sampling_rate

\* Sample with the delay applied before the gate, to every unit.
Sample_DelaysFirst(r) ==
  /\ variant[r] = "af"
  /\ pc[r] = "trace"
  /\ IF ti[r] > Len(documents)
     THEN Proceed(r, "audit") /\ UNCHANGED calls
                             /\ drawn' = [drawn EXCEPT ![r] = NoNum]
     ELSE IF TraceId(Trace(r)) = None
     THEN Continue(r, "NO_ID") /\ UNCHANGED calls
                               /\ drawn' = [drawn EXCEPT ![r] = NoNum]
     ELSE LET sampling_rate == Get(Ev(r).sampling_rate, 10)
              delay_ms == Get(Ev(r).delay_ms, 0)
          IN  /\ calls' = [calls EXCEPT
                    ![r].random = @ + 1,
                    ![r].sleep = IF delay_ms.kind = "num" /\ delay_ms.val > 0
                                 THEN @ + 1 ELSE @]
              /\ IF sampling_rate.kind # "num"
                 THEN Crash(r) /\ drawn' = [drawn EXCEPT ![r] = NoNum]
                 ELSE \E draw \in Draws :
                        /\ drawn' = [drawn EXCEPT ![r] = Num(draw)]
                        /\ IF SampledOut(draw, sampling_rate.val)
                           THEN Continue(r, "SAMPLED_OUT")
                           ELSE Proceed(r, "delay")
  /\ UNCHANGED <<documents, catalog, evaluators, store, audit, clock, variant,
                 executed_count, result, doc, io, raisedAt, upserts,
                 llmVars, normVars, genVars>>

\* `for trace in documents` up to the sampling gate: the end of the loop, a
\* trace with no identity, a sampling_rate that cannot be compared (the
\* TypeError leaves main), a unit sampled out, or a unit that goes on.
Sample(r) ==
  /\ variant[r] = "af"
  /\ pc[r] = "trace"
  /\ IF ti[r] > Len(documents)
     THEN Proceed(r, "audit") /\ UNCHANGED calls
                             /\ drawn' = [drawn EXCEPT ![r] = NoNum]
     ELSE IF TraceId(Trace(r)) = None
     THEN Continue(r, "NO_ID") /\ UNCHANGED calls
                               /\ drawn' = [drawn EXCEPT ![r] = NoNum]
     ELSE LET sampling_rate == Get(Ev(r).sampling_rate, 10)
          IN  /\ Called(r, "random")
              /\ IF sampling_rate.kind # "num"
                 THEN Crash(r) /\ drawn' = [drawn EXCEPT ![r] = NoNum]
                 ELSE \E draw \in Draws :
                        /\ drawn' = [drawn EXCEPT ![r] = Num(draw)]
                        /\ IF SampledOut(draw, sampling_rate.val)
                           THEN Continue(r, "SAMPLED_OUT")
                           ELSE Proceed(r, "delay")
  /\ UNCHANGED <<documents, catalog, evaluators, store, audit, clock, variant,
                 executed_count, result, doc, io, raisedAt, upserts,
                 llmVars, normVars, genVars>>

\* Delay with the sleep left out for a unit whose record is in the store:
\* the delay as if it came after the idempotency check.
Delay_OnlyIfAbsent(r) ==
  /\ pc[r] = "delay"
  /\ LET delay_ms == Get(Ev(r).delay_ms, 0)
         eval_id == EvalId(TraceId(Trace(r)),
                           IF variant[r] = "af" THEN Ev(r).id
                           ELSE Ev(r).score_name)
     IN  IF delay_ms.kind # "num"
         THEN Crash(r) /\ UNCHANGED calls
         ELSE /\ Proceed(r, IF variant[r] = "af" THEN "check" ELSE "resolve")
              /\ IF /\ delay_ms.val > 0
                    /\ {d \in store : d.id = eval_id} = {}
                 THEN Called(r, "sleep")
                 ELSE UNCHANGED calls
  /\ drawn' = [drawn EXCEPT ![r] = NoNum]
  /\ UNCHANGED <<documents, catalog, evaluators, store, audit, clock, variant,
                 executed_count, result, doc, io, raisedAt, upserts,
                 llmVars, normVars, genVars>>

\* The optional delay: `if delay_ms > 0: time.sleep(delay_ms / 1000)`.
Delay(r) ==
  /\ pc[r] = "delay"
  /\ LET delay_ms == Get(Ev(r).delay_ms, 0)
     IN  IF delay_ms.kind # "num"
         THEN Crash(r) /\ UNCHANGED calls
         ELSE /\ Proceed(r, IF variant[r] = "af" THEN "check" ELSE "resolve")
              /\ IF delay_ms.val > 0 THEN Called(r, "sleep")
                 ELSE UNCHANGED calls
  /\ drawn' = [drawn EXCEPT ![r] = NoNum]
  /\ UNCHANGED <<documents, catalog, evaluators, store, audit, clock, variant,
                 executed_count, result, doc, io, raisedAt, upserts,
                 llmVars, normVars, genVars>>

\* The key of the unit's record: evaluator_id in "af", evaluator_name in "be".
Key(r) ==
  EvalId(TraceId(Trace(r)),
         IF variant[r] = "af" THEN Ev(r).id ELSE Ev(r).score_name)

\* Check without the `continue` after a successful read.
Check_NoSkip(r) ==
  /\ pc[r] = "check"
  /\ Called(r, "read_item")
  /\ \E unreachable \in BOOLEAN :
       IF unreachable
       THEN Responded(r, "read_error") /\ Continue(r, "CHECK_ERROR")
       ELSE IF ReadItem(store, Key(r), TraceId(Trace(r))) # {}
       THEN Responded(r, "found") /\ Proceed(r, "score")
       ELSE Responded(r, "not_found") /\ Proceed(r, "score")
  /\ UNCHANGED <<documents, catalog, evaluators, store, audit, clock, variant,
                 executed_count, result, doc, raisedAt, upserts,
                 drawn,
                 llmVars, normVars, genVars>>

\* Check with every read failure taken as "not found".
Check_AssumeAbsent(r) ==
  /\ pc[r] = "check"
  /\ Called(r, "read_item")
  /\ \E unreachable \in BOOLEAN :
       IF unreachable
       THEN Responded(r, "read_error") /\ Proceed(r, "score")
       ELSE IF ReadItem(store, Key(r), TraceId(Trace(r))) # {}
       THEN Responded(r, "found") /\ Continue(r, "IDEMPOTENT_SKIP")
       ELSE Responded(r, "not_found") /\ Proceed(r, "score")
  /\ UNCHANGED <<documents, catalog, evaluators, store, audit, clock, variant,
                 executed_count, result, doc, raisedAt, upserts,
                 drawn,
                 llmVars, normVars, genVars>>

\* Check with a unit whose record is found counted as executed.
Check_CountsSkip(r) ==
  /\ pc[r] = "check"
  /\ Called(r, "read_item")
  /\ \E unreachable \in BOOLEAN :
       IF unreachable
       THEN /\ Responded(r, "read_error") /\ Continue(r, "CHECK_ERROR")
            /\ UNCHANGED executed_count
       ELSE IF ReadItem(store, Key(r), TraceId(Trace(r))) # {}
       THEN /\ Responded(r, "found") /\ Continue(r, "IDEMPOTENT_SKIP")
            /\ executed_count' = [executed_count EXCEPT ![r] = @ + 1]
       ELSE /\ Responded(r, "not_found") /\ Proceed(r, "score")
            /\ UNCHANGED executed_count
  /\ UNCHANGED <<documents, catalog, evaluators, store, audit, clock, variant,
                 result, doc, raisedAt, upserts, drawn,
                 llmVars, normVars, genVars>>

\* The idempotency check: read_item returns the record (`continue`), raises
\* CosmosResourceNotFoundError (go on), or raises anything else (`continue`).
Check(r) ==
  /\ pc[r] = "check"
  /\ Called(r, "read_item")
  /\ \E unreachable \in BOOLEAN :
       IF unreachable
       THEN Responded(r, "read_error") /\ Continue(r, "CHECK_ERROR")
       ELSE IF ReadItem(store, Key(r), TraceId(Trace(r))) # {}
       THEN Responded(r, "found") /\ Continue(r, "IDEMPOTENT_SKIP")
       ELSE Responded(r, "not_found") /\ Proceed(r, "score")
  /\ UNCHANGED <<documents, catalog, evaluators, store, audit, clock, variant,
                 executed_count, result, doc, raisedAt, upserts,
                 drawn,
                 llmVars, normVars, genVars>>

\* Score without the try/except: what run_evaluator raises leaves main.
Score_Propagates(r) ==
  /\ variant[r] = "af"
  /\ pc[r] = "score"
  /\ Called(r, "run_evaluator")
  /\ \E o \in EngineOutcomes :
       /\ result' = [result EXCEPT ![r] = [raised |-> o.raised, msg |-> o.msg]]
       /\ doc' = [doc EXCEPT ![r] =
                    EvaluationDoc(Ev(r), TraceId(Trace(r)), o, clock)]
       /\ raisedAt' = [raisedAt EXCEPT ![r] =
                         IF o.raised THEN @ \cup {Unit(r)} ELSE @]
       /\ IF o.raised THEN Crash(r) ELSE Proceed(r, "persist")
  /\ clock' = clock + 1
  /\ UNCHANGED <<documents, catalog, evaluators, store, audit, variant, executed_count,
                 io, upserts,
                 drawn,
                 llmVars, normVars, genVars>>

\* run_evaluator inside try/except, and the document built from what it
\* gave.
Score(r) ==
  /\ variant[r] = "af"
  /\ pc[r] = "score"
  /\ Called(r, "run_evaluator")
  /\ \E o \in EngineOutcomes :
       /\ result' = [result EXCEPT ![r] = [raised |-> o.raised, msg |-> o.msg]]
       /\ doc' = [doc EXCEPT ![r] =
                    EvaluationDoc(Ev(r), TraceId(Trace(r)), o, clock)]
       /\ raisedAt' = [raisedAt EXCEPT ![r] =
                         IF o.raised THEN @ \cup {Unit(r)} ELSE @]
  /\ clock' = clock + 1
  /\ Proceed(r, "persist")
  /\ UNCHANGED <<documents, catalog, evaluators, store, audit, variant, executed_count,
                 io, upserts,
                 drawn,
                 llmVars, normVars, genVars>>

\* Persist with the unit counted before the upsert is tried.
Persist_CountsAttempt(r) ==
  /\ pc[r] = "persist"
  /\ Called(r, "upsert_item")
  /\ executed_count' =
       [executed_count EXCEPT ![r] = IF variant[r] = "af" THEN @ + 1 ELSE @]
  /\ \E failed \in BOOLEAN :
       IF failed
       THEN /\ Responded(r, "write_error")
            /\ Continue(r, "PERSIST_FAILED")
            /\ UNCHANGED <<store, upserts>>
       ELSE /\ Responded(r, "written")
            /\ store' = UpsertItem(store, doc[r])
            /\ upserts' = Append(upserts, [run |-> r, body |-> doc[r]])
            /\ Continue(r, "PERSISTED")
  /\ result' = [result EXCEPT ![r] = NoResult]
  /\ doc' = [doc EXCEPT ![r] = NoDoc]
  /\ UNCHANGED <<documents, catalog, evaluators, audit, clock, variant, raisedAt,
                 drawn,
                 llmVars, normVars, genVars>>

\* Persist that leaves a "pending" record of the unit behind when the
\* upsert of the result fails.
Persist_LeavesPlaceholder(r) ==
  /\ pc[r] = "persist"
  /\ Called(r, "upsert_item")
  /\ \E failed \in BOOLEAN :
       IF failed
       THEN /\ Responded(r, "write_error")
            /\ store' = UpsertItem(store, [doc[r] EXCEPT !.status = "pending"])
            /\ Continue(r, "PERSIST_FAILED")
            /\ UNCHANGED <<executed_count, upserts>>
       ELSE /\ Responded(r, "written")
            /\ store' = UpsertItem(store, doc[r])
            /\ upserts' = Append(upserts, [run |-> r, body |-> doc[r]])
            /\ executed_count' =
                 [executed_count EXCEPT ![r] =
                    IF variant[r] = "af" THEN @ + 1 ELSE @]
            /\ Continue(r, "PERSISTED")
  /\ result' = [result EXCEPT ![r] = NoResult]
  /\ doc' = [doc EXCEPT ![r] = NoDoc]
  /\ UNCHANGED <<documents, catalog, evaluators, audit, clock, variant, raisedAt,
                 drawn,
                 llmVars, normVars, genVars>>

\* upsert_item inside try/except: it writes and the unit is counted ("af"
\* counts, "be" does not), or it raises and the failure is logged.
Persist(r) ==
  /\ pc[r] = "persist"
  /\ Called(r, "upsert_item")
  /\ \E failed \in BOOLEAN :
       IF failed
       THEN /\ Responded(r, "write_error")
            /\ Continue(r, "PERSIST_FAILED")
            /\ UNCHANGED <<store, executed_count, upserts>>
       ELSE /\ Responded(r, "written")
            /\ store' = UpsertItem(store, doc[r])
            /\ upserts' = Append(upserts, [run |-> r, body |-> doc[r]])
            /\ executed_count' =
                 [executed_count EXCEPT ![r] =
                    IF variant[r] = "af" THEN @ + 1 ELSE @]
            /\ Continue(r, "PERSISTED")
  /\ result' = [result EXCEPT ![r] = NoResult]
  /\ doc' = [doc EXCEPT ![r] = NoDoc]
  /\ UNCHANGED <<documents, catalog, evaluators, audit, clock, variant, raisedAt,
                 drawn,
                 llmVars, normVars, genVars>>

\* Audit with no entry for an evaluator that executed nothing.
Audit_SkipsIdle(r) ==
  /\ pc[r] = "audit"
  /\ IF executed_count[r] = 0
     THEN UNCHANGED <<audit, calls>>
     ELSE /\ Called(r, "audit_log")
          /\ audit' = [audit EXCEPT ![r] =
               Append(@, AuditEntry(Ev(r).id, executed_count[r], trace_count))]
  /\ ei' = [ei EXCEPT ![r] = @ + 1]
  /\ Goto(r, "ev")
  /\ UNCHANGED <<documents, catalog, evaluators, store, clock, variant, ti,
                 executed_count, result, doc, io, outcome, raisedAt, upserts,
                 drawn,
                 llmVars, normVars, genVars>>

\* audit_log after the evaluator's pass, then the next evaluator.
Audit(r) ==
  /\ pc[r] = "audit"
  /\ Called(r, "audit_log")
  /\ audit' = [audit EXCEPT ![r] =
                 Append(@, AuditEntry(Ev(r).id, executed_count[r], trace_count))]
  /\ ei' = [ei EXCEPT ![r] = @ + 1]
  /\ Goto(r, "ev")
  /\ UNCHANGED <<documents, catalog, evaluators, store, clock, variant, ti,
                 executed_count, result, doc, io, outcome, raisedAt, upserts,
                 drawn,
                 llmVars, normVars, genVars>>

\* ----------------------------- backend/azure_functions/EvaluatorRunner.main
\* The template ids that evaluators.registry.EVALUATORS maps to a function.
EVALUATORS == {"tpl1", "tpl2"}

\* What evaluator_fn(trace) can do: return a result dict or raise.
B_EngineOutcomes ==
  { [raised |-> FALSE, msg |-> "",
     result |-> [score |-> Num(8333), explanation |-> "grounded"],
     elapsed_ms |-> 7],
    [raised |-> TRUE, msg |-> "boom",
     result |-> [score |-> NoNum, explanation |-> ""],
     elapsed_ms |-> 1] }

\* sampling_rate after `if sampling_rate < 0 or sampling_rate > 1`.
B_Clamp(rate) == IF rate < 0 \/ rate > 10 THEN 10 ELSE rate

\* The result and status main holds after the try/except around
\* evaluator_fn, as the document of the unit.
B_EvaluationDoc(ev, trace_id, o, now) ==
  LET res == IF o.raised THEN [score |-> NoNum, explanation |-> o.msg]
             ELSE o.result
  IN  [id |-> EvalId(trace_id, ev.score_name),
       trace_id |-> trace_id,
       evaluator_name |-> ev.score_name,
       score |-> res.score,
       explanation |-> res.explanation,
       status |-> IF o.raised THEN "failed" ELSE "completed",
       duration_ms |-> o.elapsed_ms,
       timestamp |-> now]

\* `for trace in documents`: the end of the loop, a trace with no identity
\* (`continue`), or the start of the pass over the evaluators.
B_NextTrace(r) ==
  /\ variant[r] = "be"
  /\ pc[r] = "trace"
  /\ IF ti[r] > Len(documents)
     THEN Proceed(r, "done")
     ELSE IF TraceId(Trace(r)) = None
     THEN /\ ti' = [ti EXCEPT ![r] = @ + 1]
          /\ outcome' = [outcome EXCEPT ![r] =
               [u \in Units |-> IF u[2] = ti[r] THEN "NO_ID" ELSE @[u]]]
          /\ UNCHANGED <<pc, ei>>
     ELSE /\ ei' = [ei EXCEPT ![r] = 1]
          /\ Goto(r, "ev")
          /\ UNCHANGED <<ti, outcome>>
  /\ UNCHANGED <<documents, catalog, evaluators, store, audit, clock, variant,
                 executed_count, result, doc, io, raisedAt, upserts, calls,
                 drawn,
                 llmVars, normVars, genVars>>

\* `for ev in evaluators` up to the sampling gate: the end of the loop, an
\* evaluator with no name, a sampling_rate that cannot be compared, a unit
\* sampled out, or a unit that goes on.
B_Sample(r) ==
  /\ variant[r] = "be"
  /\ pc[r] = "ev"
  /\ IF ei[r] > Len(evaluators[r])
     THEN /\ ti' = [ti EXCEPT ![r] = @ + 1]
          /\ Goto(r, "trace")
          /\ drawn' = [drawn EXCEPT ![r] = NoNum]
          /\ UNCHANGED <<ei, outcome, calls>>
     ELSE IF Ev(r).score_name = None
     THEN /\ Continue(r, "INVALID_EVALUATOR")
          /\ drawn' = [drawn EXCEPT ![r] = NoNum]
          /\ UNCHANGED calls
     ELSE LET sampling_rate == Get(Ev(r).sampling_rate, 10)
          IN  IF sampling_rate.kind # "num"
              THEN /\ Crash(r)
                   /\ drawn' = [drawn EXCEPT ![r] = NoNum]
                   /\ UNCHANGED calls
              ELSE /\ Called(r, "random")
                   /\ \E draw \in Draws :
                        /\ drawn' = [drawn EXCEPT ![r] = Num(draw)]
                        /\ IF SampledOut(draw, B_Clamp(sampling_rate.val))
                           THEN Continue(r, "SAMPLED_OUT")
                           ELSE Proceed(r, "delay")
  /\ UNCHANGED <<documents, catalog, evaluators, store, audit, clock, variant,
                 executed_count, result, doc, io, raisedAt, upserts,
                 llmVars, normVars, genVars>>

\* EVALUATORS.get(template_id): no function registered (`continue`), or the
\* unit goes on with it.
B_Resolve(r) ==
  /\ variant[r] = "be"
  /\ pc[r] = "resolve"
  /\ IF Ev(r).template_id \notin EVALUATORS
     THEN Continue(r, "UNRESOLVED")
     ELSE Proceed(r, "check")
  /\ UNCHANGED <<documents, catalog, evaluators, store, audit, clock, variant,
                 executed_count, result, doc, io, raisedAt, upserts, calls,
                 drawn,
                 llmVars, normVars, genVars>>

\* evaluator_fn(trace) inside try/except, and the document built from what
\* it gave.
B_Score(r) ==
  /\ variant[r] = "be"
  /\ pc[r] = "score"
  /\ Called(r, "run_evaluator")
  /\ \E o \in B_EngineOutcomes :
       /\ result' = [result EXCEPT ![r] = [raised |-> o.raised, msg |-> o.msg]]
       /\ doc' = [doc EXCEPT ![r] =
                    B_EvaluationDoc(Ev(r), TraceId(Trace(r)), o, clock)]
       /\ raisedAt' = [raisedAt EXCEPT ![r] =
                         IF o.raised THEN @ \cup {Unit(r)} ELSE @]
  /\ clock' = clock + 1
  /\ Proceed(r, "persist")
  /\ UNCHANGED <<documents, catalog, evaluators, store, audit, variant, executed_count,
                 io, upserts,
                 drawn,
                 llmVars, normVars, genVars>>

\* ------------------------------------------------- shared/llm.py call_llm
\* The default of the parameter max_retries.
DefaultMaxRetries == 2

\* An Optional[str]: None, or a str with its characters.
NoText == [some |-> FALSE, chars |-> <<>>]
Text(cs) == [some |-> TRUE, chars |-> cs]

\* `not content`: None and "" are falsy.
Falsy(content) == ~content.some \/ content.chars = <<>>

\* Whitespace as the blank, the tab and the line feed only.
Whitespace_AsciiBlanks == {9, 10, 32}

\* The characters str.strip() removes at both ends: the code points c with
\* chr(c).isspace().
Whitespace ==
  (9..13) \cup (28..32) \cup {133, 160, 5760} \cup (8192..8202)
    \cup {8232, 8233, 8239, 8287, 12288}

\* content.strip()
RECURSIVE Strip(_)
Strip(cs) ==
  IF cs = <<>> THEN cs
  ELSE IF Head(cs) \in Whitespace THEN Strip(Tail(cs))
  ELSE IF cs[Len(cs)] \in Whitespace THEN Strip(SubSeq(cs, 1, Len(cs) - 1))
  ELSE cs

\* What client.chat.completions.create can do: raise, or return a response
\* whose choices[0].message.content is None or a str.
NoResponse == [kind |-> "none", content |-> NoText]
Responses ==
  {[kind |-> "raise", content |-> NoText]}
    \cup {[kind |-> "content", content |-> c] :
            c \in {NoText, Text(<<>>),
                   \* " ", "7", " 0.8\n"
                   Text(<<32>>), Text(<<55>>), Text(<<32, 48, 46, 56, 10>>),
                   \* "0.8\r\n", "\x0b7\x0c", "\xa07 8\u2003"
                   Text(<<48, 46, 56, 13, 10>>), Text(<<11, 55, 12>>),
                   Text(<<160, 55, 32, 56, 8195>>)}}

\* The backoff at a fixed 2 seconds.
SleepTime_Fixed(n) == 2

\* sleep_time = 2 ** attempt
SleepTime(n) == 2 ^ n

\* No call of call_llm is under way.
LlmIdle ==
  /\ max_retries = DefaultMaxRetries
  /\ attempt = 0
  /\ llm_pc = "idle"
  /\ response = NoResponse
  /\ returned = NoText
  /\ slept = <<>>
  /\ created = 0
  /\ failures = 0

\* call_llm returns value.
Return(value) ==
  /\ llm_pc' = "returned"
  /\ returned' = value

\* LlmWhile with `<` in place of `<=`.
LlmWhile_Strict ==
  /\ llm_pc = "while"
  /\ IF attempt < max_retries
     THEN llm_pc' = "create" /\ UNCHANGED returned
     ELSE Return(NoText)
  /\ UNCHANGED <<max_retries, attempt, response, slept, created, failures>>
  /\ UNCHANGED <<mainVars, normVars, genVars>>

\* `while attempt <= max_retries`: the body is entered, or the function
\* ends and returns None.
LlmWhile ==
  /\ llm_pc = "while"
  /\ IF attempt <= max_retries
     THEN llm_pc' = "create" /\ UNCHANGED returned
     ELSE Return(NoText)
  /\ UNCHANGED <<max_retries, attempt, response, slept, created, failures>>
  /\ UNCHANGED <<mainVars, normVars, genVars>>

\* LlmCreate with an empty response taken as a failed attempt.
LlmCreate_RetriesEmpty ==
  /\ llm_pc = "create"
  /\ created' = created + 1
  /\ \E resp \in Responses :
       /\ response' = resp
       /\ IF resp.kind = "raise" \/ Falsy(resp.content)
          THEN /\ failures' = failures + (IF resp.kind = "raise" THEN 1 ELSE 0)
               /\ attempt' = attempt + 1
               /\ IF attempt + 1 <= max_retries
                  THEN llm_pc' = "sleep" /\ UNCHANGED returned
                  ELSE Return(NoText)
          ELSE /\ Return(Text(Strip(resp.content.chars)))
               /\ UNCHANGED <<attempt, failures>>
  /\ UNCHANGED <<max_retries, slept>>
  /\ UNCHANGED <<mainVars, normVars, genVars>>

\* LlmCreate with the exception of the last attempt raised again.
LlmCreate_Reraises ==
  /\ llm_pc = "create"
  /\ created' = created + 1
  /\ \E resp \in Responses :
       /\ response' = resp
       /\ IF resp.kind = "raise"
          THEN /\ failures' = failures + 1
               /\ attempt' = attempt + 1
               /\ IF attempt + 1 <= max_retries
                  THEN llm_pc' = "sleep"
                  ELSE llm_pc' = "raised"
               /\ UNCHANGED returned
          ELSE /\ IF Falsy(resp.content)
                  THEN Return(NoText)
                  ELSE Return(Text(Strip(resp.content.chars)))
               /\ UNCHANGED <<attempt, failures>>
  /\ UNCHANGED <<max_retries, slept>>
  /\ UNCHANGED <<mainVars, normVars, genVars>>

\* LlmCreate with the content returned as it came.
LlmCreate_Unstripped ==
  /\ llm_pc = "create"
  /\ created' = created + 1
  /\ \E resp \in Responses :
       /\ response' = resp
       /\ IF resp.kind = "raise"
          THEN /\ failures' = failures + 1
               /\ attempt' = attempt + 1
               /\ IF attempt + 1 <= max_retries
                  THEN llm_pc' = "sleep" /\ UNCHANGED returned
                  ELSE Return(NoText)
          ELSE /\ IF Falsy(resp.content)
                  THEN Return(NoText)
                  ELSE Return(resp.content)
               /\ UNCHANGED <<attempt, failures>>
  /\ UNCHANGED <<max_retries, slept>>
  /\ UNCHANGED <<mainVars, normVars, genVars>>

\* One pass of the try: the remote call returns (None for no content, the
\* stripped content otherwise), or raises: attempt is incremented, and
\* either a backoff follows or the retries are used up and None is returned.
LlmCreate ==
  /\ llm_pc = "create"
  /\ created' = created + 1
  /\ \E resp \in Responses :
       /\ response' = resp
       /\ IF resp.kind = "raise"
          THEN /\ failures' = failures + 1
               /\ attempt' = attempt + 1
               /\ IF attempt + 1 <= max_retries
                  THEN llm_pc' = "sleep" /\ UNCHANGED returned
                  ELSE Return(NoText)
          ELSE /\ IF Falsy(resp.content)
                  THEN Return(NoText)
                  ELSE Return(Text(Strip(resp.content.chars)))
               /\ UNCHANGED <<attempt, failures>>
  /\ UNCHANGED <<max_retries, slept>>
  /\ UNCHANGED <<mainVars, normVars, genVars>>

\* time.sleep(sleep_time), then the loop test again.
LlmSleep ==
  /\ llm_pc = "sleep"
  /\ slept' = Append(slept, SleepTime(attempt))
  /\ llm_pc' = "while"
  /\ UNCHANGED <<max_retries, attempt, response, returned, created, failures>>
  /\ UNCHANGED <<mainVars, normVars, genVars>>

\* ------------------------- azure-functions/EvaluatorRunner normalize_trace
\* A text field of a trace document: the key absent, present with JSON null
\* (None), or present with a str.
NoKey == [kind |-> "absent", val |-> ""]
NullText == [kind |-> "null", val |-> ""]
Str(s) == [kind |-> "str", val |-> s]

\* trace.get(key): None when the key is absent.
GetNone(v) == IF v.kind = "absent" THEN NullText ELSE v

\* trace.get(key, default): the default only when the key is absent.
GetText(v, default) == IF v.kind = "absent" THEN Str(default) ELSE v

\* The truth value of None or a str: only a non-empty str is true.
Truthy(v) == v.kind = "str" /\ v.val # ""

\* a or b
Or(a, b) == IF Truthy(a) THEN a ELSE b

\* normalize_trace with no fallback to question and answer.
normalize_trace_NoFallback(t) ==
  [input |-> GetText(t.input, ""),
   context |-> GetText(t.context, ""),
   response |-> GetText(t.output, ""),
   output |-> GetText(t.output, ""),
   _raw |-> t]

\* normalize_trace with response taken from answer first.
normalize_trace_ResponseFromAnswer(t) ==
  [input |-> Or(GetNone(t.input), GetText(t.question, "")),
   context |-> GetText(t.context, ""),
   response |-> Or(GetNone(t.answer), GetText(t.output, "")),
   output |-> Or(GetNone(t.output), GetText(t.answer, "")),
   _raw |-> t]

\* The dict normalize_trace(trace) returns.
normalize_trace(t) ==
  [input |-> Or(GetNone(t.input), GetText(t.question, "")),
   context |-> GetText(t.context, ""),
   response |-> Or(GetNone(t.output), GetText(t.answer, "")),
   output |-> Or(GetNone(t.output), GetText(t.answer, "")),
   _raw |-> t]

\* The trace documents normalize_trace is called on.
TraceDocuments ==
  [input : {NoKey, NullText, Str(""), Str("in")},
   question : {NoKey, NullText, Str(""), Str("q")},
   context : {NoKey, NullText, Str("ctx")},
   output : {NoKey, NullText, Str(""), Str("out")},
   answer : {NoKey, NullText, Str(""), Str("ans")}]

\* No call of normalize_trace has been made.
NormIdle ==
  /\ n_trace = [input |-> NoKey, question |-> NoKey, context |-> NoKey,
                output |-> NoKey, answer |-> NoKey]
  /\ normalized = <<>>

\* One call of normalize_trace on the trace: the function reads the dict
\* and returns a new one that refers to it.
NormalizeTrace ==
  /\ Len(normalized) < MaxCalls
  /\ normalized' = Append(normalized, normalize_trace(n_trace))
  /\ UNCHANGED n_trace
  /\ UNCHANGED <<mainVars, llmVars, genVars>>

\* ------------------------------------------------ TraceGenerator.main
\* No timer invocation of TraceGenerator.main has started; the counter
\* document does not exist.
GenIdle ==
  /\ counter = NoNum
  /\ traces = {}
  /\ g_variant = [p \in Invocations |-> "af"]
  /\ g_pc = [p \in Invocations |-> "idle"]
  /\ todo = [p \in Invocations |-> 0]
  /\ g_doc = [p \in Invocations |-> NoNum]
  /\ next_no = [p \in Invocations |-> 0]
  /\ got = [p \in Invocations |-> <<>>]

\* "af" is azure-functions/TraceGenerator, "be" is
\* backend/azure_functions/TraceGenerator: the bounds of random.randint for
\* the number of traces of one invocation.
LoopCounts(v) == IF v = "af" THEN 1..2 ELSE 2..5

\* str(trace_no).zfill(4)
Zfill4(n) ==
  IF n < 10 THEN "000" \o ToString(n)
  ELSE IF n < 100 THEN "00" \o ToString(n)
  ELSE IF n < 1000 THEN "0" \o ToString(n)
  ELSE ToString(n)

\* trace_id = f"trace-{str(trace_no).zfill(4)}"
MakeTraceId(trace_no) == "trace-" \o Zfill4(trace_no)

G_Goto(p, l) == g_pc' = [g_pc EXCEPT ![p] = l]

\* The timer fires: main sets up its clients and draws the number of
\* traces to generate.
G_Start(p) ==
  /\ g_pc[p] = "idle"
  /\ \E n \in LoopCounts(g_variant[p]) : todo' = [todo EXCEPT ![p] = n]
  /\ G_Goto(p, "loop")
  /\ UNCHANGED <<counter, traces, g_variant, g_doc, next_no, got>>
  /\ UNCHANGED <<mainVars, llmVars, normVars>>

\* `for _ in range(...)`, and the body up to the call of
\* get_next_trace_number: the texts are drawn; in azure-functions main
\* provider.generate is called, and what it raises leaves main.
G_Loop(p) ==
  /\ g_pc[p] = "loop"
  /\ IF todo[p] = 0
     THEN G_Goto(p, "done")
     ELSE \E failed \in BOOLEAN :
            IF failed /\ g_variant[p] = "af"
            THEN G_Goto(p, "crashed")
            ELSE G_Goto(p, "read")
  /\ UNCHANGED <<counter, traces, g_variant, todo, g_doc, next_no, got>>
  /\ UNCHANGED <<mainVars, llmVars, normVars>>

\* G_Read with the counter started at 0.
G_Read_FromZero(p) ==
  /\ g_pc[p] = "read"
  /\ \E unreachable \in BOOLEAN :
       IF unreachable
       THEN G_Goto(p, "crashed") /\ UNCHANGED <<g_doc, next_no>>
       ELSE IF IsNum(counter)
       THEN /\ g_doc' = [g_doc EXCEPT ![p] = counter]
            /\ next_no' = [next_no EXCEPT ![p] = Val(counter) + 1]
            /\ G_Goto(p, "upsert")
       ELSE /\ g_doc' = [g_doc EXCEPT ![p] = Num(0)]
            /\ next_no' = [next_no EXCEPT ![p] = 0]
            /\ G_Goto(p, "upsert")
  /\ UNCHANGED <<counter, traces, g_variant, todo, got>>
  /\ UNCHANGED <<mainVars, llmVars, normVars>>

\* get_next_trace_number, the try: read_item returns the counter document
\* (next_no = doc["value"] + 1), raises CosmosResourceNotFoundError (next_no
\* = 1 and a new document), or raises anything else, which leaves main.
G_Read(p) ==
  /\ g_pc[p] = "read"
  /\ \E unreachable \in BOOLEAN :
       IF unreachable
       THEN G_Goto(p, "crashed") /\ UNCHANGED <<g_doc, next_no>>
       ELSE IF IsNum(counter)
       THEN /\ g_doc' = [g_doc EXCEPT ![p] = counter]
            /\ next_no' = [next_no EXCEPT ![p] = Val(counter) + 1]
            /\ G_Goto(p, "upsert")
       ELSE /\ g_doc' = [g_doc EXCEPT ![p] = Num(0)]
            /\ next_no' = [next_no EXCEPT ![p] = 1]
            /\ G_Goto(p, "upsert")
  /\ UNCHANGED <<counter, traces, g_variant, todo, got>>
  /\ UNCHANGED <<mainVars, llmVars, normVars>>

\* get_next_trace_number, the rest: doc["value"] = next_no, upsert_item(doc)
\* replaces the counter document whatever it holds by now, and next_no is
\* returned; what upsert_item raises leaves main.
G_Upsert(p) ==
  /\ g_pc[p] = "upsert"
  /\ \E failed \in BOOLEAN :
       IF failed
       THEN /\ G_Goto(p, "crashed")
            /\ UNCHANGED <<counter, g_doc, got>>
       ELSE /\ g_doc' = [g_doc EXCEPT ![p] = Num(next_no[p])]
            /\ counter' = Num(next_no[p])
            /\ got' = [got EXCEPT ![p] = Append(@, next_no[p])]
            /\ G_Goto(p, "create")
  /\ UNCHANGED <<traces, g_variant, todo, next_no>>
  /\ UNCHANGED <<mainVars, llmVars, normVars>>

\* make_trace and traces_container.create_item(trace): the trace is
\* created, or create_item raises (a document of that id is there already,
\* or the container cannot be reached), which leaves main.
G_Create(p) ==
  /\ g_pc[p] = "create"
  /\ LET trace_id == MakeTraceId(got[p][Len(got[p])])
     IN  \E failed \in BOOLEAN :
           IF failed \/ trace_id \in traces
           THEN G_Goto(p, "crashed") /\ UNCHANGED <<traces, todo>>
           ELSE /\ traces' = traces \cup {trace_id}
                /\ todo' = [todo EXCEPT ![p] = @ - 1]
                /\ G_Goto(p, "loop")
  /\ UNCHANGED <<counter, g_variant, g_doc, next_no, got>>
  /\ UNCHANGED <<mainVars, llmVars, normVars>>

\* One step of an invocation of TraceGenerator.main after its start.
G_Step(p) ==
  \/ G_Loop(p)
  \/ G_Read(p)
  \/ G_Upsert(p)
  \/ G_Create(p)

\* ------------------------------------------------------- specifications
\* One step of a run of azure-functions/EvaluatorRunner.main.
AfStep(r) ==
  \/ NextEvaluator(r)
  \/ Sample(r)
  \/ Score(r)
  \/ Audit(r)

\* One step of a run of backend/azure_functions/EvaluatorRunner.main.
BeStep(r) ==
  \/ B_NextTrace(r)
  \/ B_Sample(r)
  \/ B_Resolve(r)
  \/ B_Score(r)

\* One step of the code the two variants have in common.
CommonStep(r) ==
  \/ LoadEvaluators(r)
  \/ Delay(r)
  \/ Check(r)
  \/ Persist(r)

\* The documents of a world's catalog as the "evaluators" container holds
\* them where variant v is deployed: the worlds are written for
\* azure-functions main, and for backend main 'active' and 'enabled' change
\* places.
Held(docs, v) ==
  [i \in 1..Len(docs) |->
     IF v = "af" THEN docs[i]
     ELSE [docs[i] EXCEPT !.status = IF @ = "active" THEN "enabled"
                                     ELSE IF @ = "enabled" THEN "active"
                                     ELSE @]]

\* The state before any delivery: the batch and the catalog of a world, an
\* empty evaluations container, every run executing the same variant of
\* main.
InitOf(worlds, variants) ==
  /\ \E w \in worlds, v \in variants :
       /\ documents = w.documents
       /\ catalog = Held(w.catalog, v)
       /\ variant = [r \in Runs |-> v]
       /\ outcome = [r \in Runs |->
            [u \in (1..Len(w.catalog)) \X (1..Len(w.documents)) |-> "PENDING"]]
  /\ evaluators = [r \in Runs |-> <<>>]
  /\ store = {}
  /\ audit = [r \in Runs |-> <<>>]
  /\ clock = 0
  /\ pc = [r \in Runs |-> "start"]
  /\ ei = [r \in Runs |-> 0]
  /\ ti = [r \in Runs |-> 0]
  /\ executed_count = [r \in Runs |-> 0]
  /\ result = [r \in Runs |-> NoResult]
  /\ doc = [r \in Runs |-> NoDoc]
  /\ io = [r \in Runs |-> "none"]
  /\ raisedAt = [r \in Runs |-> {}]
  /\ upserts = <<>>
  /\ calls = [r \in Runs |-> NoCalls]
  /\ drawn = [r \in Runs |-> NoNum]

\* Overlapping deliveries: the runs of EvaluatorRunner.main start at any time
\* and their steps interleave.
Init ==
  /\ InitOf({[documents |-> <<T1>>, catalog |-> <<E1>>],
             [documents |-> <<T2>>, catalog |-> <<E2>>]}, {"af"})
  /\ LlmIdle
  /\ NormIdle
  /\ GenIdle

\* A request POST /evaluators is served at any time: before the first
\* delivery, while runs of main are inside their loops, or after the last.
Create ==
  \E payload \in Payloads, evaluator_id \in Uuids :
    CreateEvaluator(payload, evaluator_id)

Next ==
  \/ \E r \in Runs :
       \/ Start(r)
       \/ CommonStep(r)
       \/ AfStep(r)
  \/ Create

Spec == Init /\ [][Next]_vars

\* Redelivery in sequence: a delivery starts only when the one before it has
\* left main.
SeqStart(r) ==
  /\ IF r = 1 THEN TRUE ELSE pc[r - 1] \in Ended
  /\ Start(r)

InitSeq ==
  /\ InitOf({[documents |-> <<T1, T2>>, catalog |-> <<E1>>],
             [documents |-> <<T1, T2>>, catalog |-> <<E2, ENull, E1>>]},
            Variants)
  /\ LlmIdle
  /\ NormIdle
  /\ GenIdle

NextSeq ==
  \/ \E r \in Runs :
       \/ SeqStart(r)
       \/ CommonStep(r)
       \/ AfStep(r)
       \/ BeStep(r)
  \/ Create

SpecSeq == InitSeq /\ [][NextSeq]_vars

\* One delivery, over batches and catalogs of every shape: documents with
\* and without identity, evaluators without id or template id, every kind
\* of sampling rate, an empty batch, an empty catalog, and a container that
\* has the record of (t2, e1) from an earlier run of azure-functions main,
\* an evaluator of a template that is not registered, and two evaluators
\* of one score_name, a container with documents of other statuses than
\* the one the variant asks for, and a container with none of that status.
PriorRecord ==
  EvaluationDoc(EAlways, "t2",
                CHOOSE o \in EngineOutcomes : o.result.classification = "pass",
                0)

Worlds ==
  { [documents |-> <<T0, T1>>, catalog |-> <<ENoId, E1, ENoTemplate>>,
     store |-> {}],
    [documents |-> <<>>, catalog |-> <<E1>>, store |-> {}],
    [documents |-> <<T1>>, catalog |-> <<>>, store |-> {}],
    [documents |-> <<T1, T2, T3>>, catalog |-> <<EAlways>>,
     store |-> {PriorRecord}],
    [documents |-> <<T1>>, catalog |-> <<ENever, ENegative, EAbove, E2>>,
     store |-> {}],
    [documents |-> <<T1>>, catalog |-> <<EUnknown, E1>>, store |-> {}],
    [documents |-> <<T1, T2>>, catalog |-> <<EAlways, ETwin>>,
     store |-> {}],
    [documents |-> <<T1>>,
     catalog |-> <<[ENever EXCEPT !.status = "draft"], EAlways,
                   [E2 EXCEPT !.status = "enabled"]>>,
     store |-> {}],
    [documents |-> <<T1>>, catalog |-> <<[E1 EXCEPT !.status = "enabled"]>>,
     store |-> {}] }

\* The one delivery is run 1.
OneStart(r) == r = 1 /\ Start(r)

\* The clock is past the time of the record that is already there.
InitOne ==
  /\ \E w \in Worlds, v \in Variants :
       /\ documents = w.documents
       /\ catalog = Held(w.catalog, v)
       /\ variant = [r \in Runs |-> v]
       /\ store = w.store
       /\ outcome = [r \in Runs |->
            [u \in (1..Len(w.catalog)) \X (1..Len(w.documents)) |-> "PENDING"]]
  /\ evaluators = [r \in Runs |-> <<>>]
  /\ audit = [r \in Runs |-> <<>>]
  /\ clock = PriorRecord.timestamp + 1
  /\ pc = [r \in Runs |-> "start"]
  /\ ei = [r \in Runs |-> 0]
  /\ ti = [r \in Runs |-> 0]
  /\ executed_count = [r \in Runs |-> 0]
  /\ result = [r \in Runs |-> NoResult]
  /\ doc = [r \in Runs |-> NoDoc]
  /\ io = [r \in Runs |-> "none"]
  /\ raisedAt = [r \in Runs |-> {}]
  /\ upserts = <<>>
  /\ calls = [r \in Runs |-> NoCalls]
  /\ drawn = [r \in Runs |-> NoNum]
  /\ LlmIdle
  /\ NormIdle
  /\ GenIdle

NextOne ==
  \/ \E r \in Runs :
       \/ OneStart(r)
       \/ CommonStep(r)
       \/ AfStep(r)
       \/ BeStep(r)
  \/ Create

SpecOne == InitOne /\ [][NextOne]_vars

\* E1 as a second document of the container, of status 'enabled'.
E1Enabled == [E1 EXCEPT !.id = "e12", !.status = "enabled"]

\* Redelivery in sequence with the two variants of main deployed against
\* the same containers: the deliveries go to the variants in turn, and the
\* "evaluators" container has a document for each.
InitMix ==
  /\ documents = <<T1, T2>>
  /\ catalog = <<E1, E1Enabled>>
  /\ evaluators = [r \in Runs |-> <<>>]
  /\ outcome = [r \in Runs |-> [u \in (1..2) \X (1..2) |-> "PENDING"]]
  /\ store = {}
  /\ audit = [r \in Runs |-> <<>>]
  /\ clock = 0
  /\ \E first \in Variants :
       variant = [r \in Runs |->
                    IF r % 2 = 1 THEN first
                    ELSE CHOOSE v \in Variants : v # first]
  /\ pc = [r \in Runs |-> "start"]
  /\ ei = [r \in Runs |-> 0]
  /\ ti = [r \in Runs |-> 0]
  /\ executed_count = [r \in Runs |-> 0]
  /\ result = [r \in Runs |-> NoResult]
  /\ doc = [r \in Runs |-> NoDoc]
  /\ io = [r \in Runs |-> "none"]
  /\ raisedAt = [r \in Runs |-> {}]
  /\ upserts = <<>>
  /\ calls = [r \in Runs |-> NoCalls]
  /\ drawn = [r \in Runs |-> NoNum]
  /\ LlmIdle
  /\ NormIdle
  /\ GenIdle

SpecMix == InitMix /\ [][NextSeq]_vars

\* One call of call_llm, with any max_retries from -1 up, no run of main
\* being under way.
InitLlm ==
  /\ InitOf({[documents |-> <<T1>>, catalog |-> <<E1>>]}, {"af"})
  /\ max_retries \in -1..MaxRetries
  /\ attempt = 0
  /\ llm_pc = "while"
  /\ response = NoResponse
  /\ returned = NoText
  /\ slept = <<>>
  /\ created = 0
  /\ failures = 0
  /\ NormIdle
  /\ GenIdle

NextLlm ==
  \/ LlmWhile
  \/ LlmCreate
  \/ LlmSleep

SpecLlm == InitLlm /\ [][NextLlm]_vars

\* The call goes on as long as it has a step to take.
SpecLlmFair == SpecLlm /\ WF_vars(NextLlm)

\* Calls of normalize_trace on a trace document of any shape, no run of
\* main and no call of call_llm being under way.
InitNorm ==
  /\ InitOf({[documents |-> <<T1>>, catalog |-> <<E1>>]}, {"af"})
  /\ LlmIdle
  /\ GenIdle
  /\ n_trace \in TraceDocuments
  /\ normalized = <<>>

NextNorm == NormalizeTrace

SpecNorm == InitNorm /\ [][NextNorm]_vars

\* Timer invocations of TraceGenerator.main, of either variant, against
\* the same "metrics" and "traces" containers, the counter document not
\* being there at first; no run of EvaluatorRunner.main is under way.
InitGen ==
  /\ InitOf({[documents |-> <<T1>>, catalog |-> <<E1>>]}, {"af"})
  /\ LlmIdle
  /\ NormIdle
  /\ counter = NoNum
  /\ traces = {}
  /\ g_variant \in [Invocations -> Variants]
  /\ g_pc = [p \in Invocations |-> "idle"]
  /\ todo = [p \in Invocations |-> 0]
  /\ g_doc = [p \in Invocations |-> NoNum]
  /\ next_no = [p \in Invocations |-> 0]
  /\ got = [p \in Invocations |-> <<>>]

\* Overlapping invocations: each starts at any time and their steps
\* interleave.
NextGen ==
  \E p \in Invocations :
    \/ G_Start(p)
    \/ G_Step(p)

SpecGen == InitGen /\ [][NextGen]_vars

\* Invocations in sequence: one starts only when the one before it has
\* left main.
G_SeqStart(p) ==
  /\ IF p = 1 THEN TRUE ELSE g_pc[p - 1] \in {"done", "crashed"}
  /\ G_Start(p)

NextGenSeq ==
  \E p \in Invocations :
    \/ G_SeqStart(p)
    \/ G_Step(p)

SpecGenSeq == InitGen /\ [][NextGenSeq]_vars

\* ------------------------------------------------------------ properties
\* The identity of a unit's trace, and the key of its record in a run of
\* variant v.
UnitTraceId(u) == TraceId(documents[u[2]])
UnitKey(v, u) ==
  EvalId(UnitTraceId(u),
         IF v = "af" THEN catalog[u[1]].id ELSE catalog[u[1]].score_name)

\* The records of the container with an id under a partition key.
Stored(id, pk) == {d \in store : d.id = id /\ d.trace_id = pk}

\* The records of the container for a unit's (trace, evaluator) pair, the
\* evaluator named as variant v names it in its documents.
PairRecords(v, u) ==
  {d \in store :
     /\ d.trace_id = UnitTraceId(u)
     /\ IF v = "af"
        THEN "evaluator_id" \in DOMAIN d /\ d.evaluator_id = catalog[u[1]].id
        ELSE /\ "evaluator_name" \in DOMAIN d
             /\ d.evaluator_name = catalog[u[1]].score_name}

\* The positions of the applied upserts of a record.
UpsertsOf(id, pk) ==
  {i \in 1..Len(upserts) :
     upserts[i].body.id = id /\ upserts[i].body.trace_id = pk}

\* Run r has taken a step.
Stepped(r, f) == calls'[r][f] = calls[r][f] + 1

\* C1: in every reachable state of the evaluations store, whatever batch
\* runs have happened (redelivered, overlapping), no two records have the
\* same (trace_id, evaluator_id).
C1_AtMostOneRecordPerPair ==
  \A d1, d2 \in store :
    (d1.trace_id = d2.trace_id /\ d1.evaluator_id = d2.evaluator_id)
      => d1 = d2

\* Two overlapping runs have both upserted the record of the same pair.
C1_Witness ==
  \E i, j \in 1..Len(upserts) :
    /\ i < j
    /\ upserts[i].run # upserts[j].run
    /\ upserts[i].body.trace_id = upserts[j].body.trace_id
    /\ upserts[i].body.evaluator_id = upserts[j].body.evaluator_id
    /\ upserts[j].body \in store

\* C2: with the deliveries in sequence, a pair whose upsert succeeded in one
\* run has exactly one record, and no later run scores it or upserts it
\* again: the container has applied one upsert of its record.
C2_SecondRunAddsNoRecord ==
  \A r1, r2 \in Runs : \A u \in Units :
    (r1 < r2 /\ outcome[r1][u] = "PERSISTED")
      => /\ Cardinality(PairRecords(variant[r1], u)) = 1
         /\ Cardinality(UpsertsOf(UnitKey(variant[r1], u), UnitTraceId(u))) = 1
         /\ outcome[r2][u] \notin {"PERSISTED", "PERSIST_FAILED"}
         /\ ~(pc[r2] \in {"score", "persist"} /\ Unit(r2) = u)

\* The second run has gone through the batch and skipped a pair the first
\* run persisted.
C2_Witness ==
  \E u \in Units :
    /\ outcome[1][u] = "PERSISTED"
    /\ outcome[2][u] = "IDEMPOTENT_SKIP"
    /\ pc[2] = "done"
    /\ Cardinality(PairRecords(variant[1], u)) = 1

\* C3: when runs overlap on a pair, the container holds one record of the
\* pair, and it is, field for field, the document of the upsert applied
\* last.
C3_LastUpsertWins ==
  \A i \in 1..Len(upserts) :
    LET b == upserts[i].body
        of == UpsertsOf(b.id, b.trace_id)
        last == CHOOSE j \in of : \A k \in of : k <= j
    IN  Stored(b.id, b.trace_id) = {upserts[last].body}

\* Two runs have each read "not found", scored and upserted the same pair,
\* with different documents, and the record is the second one's.
C3_Witness ==
  /\ Len(upserts) = 2
  /\ upserts[1].run # upserts[2].run
  /\ upserts[1].body.id = upserts[2].body.id
  /\ upserts[1].body.trace_id = upserts[2].body.trace_id
  /\ upserts[1].body.status # upserts[2].body.status
  /\ \A r \in {upserts[1].run, upserts[2].run} :
       /\ calls[r].read_item = 1
       /\ calls[r].run_evaluator = 1
       /\ calls[r].upsert_item = 1
  /\ store = {upserts[2].body}

\* The unit of run r is over and the inner loop is at the next one.
MovedOn(r) ==
  IF variant[r] = "af"
  THEN pc'[r] = "trace" /\ ti'[r] = ti[r] + 1 /\ ei'[r] = ei[r]
  ELSE pc'[r] = "ev" /\ ei'[r] = ei[r] + 1 /\ ti'[r] = ti[r]

\* The step of run r made no scoring call and no upsert, and changed
\* neither the container nor the executed count.
NothingDone(r) ==
  /\ store' = store
  /\ calls'[r].run_evaluator = calls[r].run_evaluator
  /\ calls'[r].upsert_item = calls[r].upsert_item
  /\ executed_count'[r] = executed_count[r]

\* C4: when the idempotency read of a unit finds the record of its eval_id,
\* the unit ends there: no scoring call, no upsert, the container (and with
\* it the record) unchanged, the executed count not incremented.
C4_ExistingRecordSkipsUnit ==
  [][\A r \in Runs :
       (/\ pc[r] = "check"
        /\ Stepped(r, "read_item")
        /\ Stored(Key(r), TraceId(Trace(r))) # {}
        /\ io'[r] # "read_error")
         => /\ NothingDone(r)
            /\ outcome'[r][Unit(r)] = "IDEMPOTENT_SKIP"
            /\ MovedOn(r)]_vars

\* A redelivery has skipped a unit whose record was there, and finished.
C4_Witness ==
  \E r \in Runs : \E u \in Units :
    /\ outcome[r][u] = "IDEMPOTENT_SKIP"
    /\ Stored(UnitKey(variant[r], u), UnitTraceId(u)) # {}
    /\ pc[r] = "done"

\* C5: when the scoring call of a unit raises, main goes on to the upsert
\* with a document of the pair that has score None, raw_output the failure
\* message, classification "failed" and status "failed"; the upsert is
\* called, and when it succeeds that document is the record.
C5_ScoringFailureIsRecorded ==
  [][\A r \in Runs :
       /\ (variant[r] = "af" /\ pc[r] = "score" /\ raisedAt'[r] # raisedAt[r])
            => /\ pc'[r] = "persist"
               /\ doc'[r].id = Key(r)
               /\ doc'[r].trace_id = TraceId(Trace(r))
               /\ doc'[r].evaluator_id = Ev(r).id
               /\ doc'[r].score = NoNum
               /\ doc'[r].raw_output = result'[r].msg
               /\ doc'[r].classification = "failed"
               /\ doc'[r].status = "failed"
       /\ (variant[r] = "af" /\ pc[r] = "persist" /\ result[r].raised
             /\ pc'[r] # pc[r])
            => /\ Stepped(r, "upsert_item")
               /\ io'[r] = "written"
                    => {d \in store' : d.id = Key(r)
                                         /\ d.trace_id = TraceId(Trace(r))}
                         = {doc[r]}
     ]_vars

\* The record of a unit whose scoring call raised.
C5_Witness ==
  \E r \in Runs : \E u \in raisedAt[r] :
    /\ variant[r] = "af"
    /\ outcome[r][u] = "PERSISTED"
    /\ \E d \in PairRecords("af", u) :
         /\ d.score = NoNum
         /\ d.raw_output = "boom"
         /\ d.classification = "failed"
         /\ d.status = "failed"

\* The outcomes a unit can end in.
Terminal ==
  {"NO_ID", "INVALID_EVALUATOR", "SAMPLED_OUT", "UNRESOLVED", "CHECK_ERROR",
   "IDEMPOTENT_SKIP", "PERSISTED", "PERSIST_FAILED"}

\* Run r of azure-functions main is done with the pass of evaluator e.
PassOver(r, e) ==
  /\ e \in Loaded(r)
  /\ \/ pc[r] = "done"
     \/ Past(r, e)
     \/ Pos(r) = e /\ pc[r] = "audit"

\* C6: a scoring call that raises does not leave main: the unit goes on to
\* its upsert and from there the loop goes to the next trace of the same
\* evaluator, as after a scoring call that returned; so once the evaluator's
\* pass is over, every trace after the one that raised has been taken to a
\* terminal outcome.
C6_LaterTracesStillProcessed ==
  /\ [][\A r \in Runs :
          /\ (variant[r] = "af" /\ pc[r] = "score" /\ pc'[r] # pc[r])
               => pc'[r] = "persist" /\ ei'[r] = ei[r] /\ ti'[r] = ti[r]
          /\ (variant[r] = "af" /\ pc[r] = "persist" /\ pc'[r] # pc[r])
               => MovedOn(r)]_vars
  /\ [](\A r \in Runs : \A u1, u2 \in Units :
          (/\ variant[r] = "af"
           /\ u1 \in raisedAt[r]
           /\ u2[1] = u1[1]
           /\ u2[2] > u1[2]
           /\ PassOver(r, u1[1]))
            => outcome[r][u2] \in Terminal)

\* Scoring raised for the first trace, and the second trace of the same
\* evaluator was scored without raising and persisted.
C6_Witness ==
  \E r \in Runs : \E e \in 1..Len(catalog) :
    /\ variant[r] = "af"
    /\ <<e, 1>> \in raisedAt[r]
    /\ <<e, 2>> \notin raisedAt[r]
    /\ outcome[r][<<e, 2>>] = "PERSISTED"

\* The evaluators main runs over the batch: "af" wants an id and a template
\* id, "be" a score_name.
Runnable(v, ev) ==
  IF v = "af" THEN ~InvalidEvaluator(ev) ELSE ev.score_name # None

\* C7: no failure in one unit or one evaluator aborts the batch run: a run
\* of azure-functions main that has loaded the catalog and left main has
\* taken every unit of every runnable evaluator it loaded to a terminal
\* outcome.
C7_NoFailureAbortsTheRun ==
  \A r \in Runs :
    (variant[r] = "af" /\ pc[r] \in Ended /\ pc[r] # "load_failed")
      => \A u \in Units :
           (u[1] \in Loaded(r) /\ Runnable(variant[r], catalog[u[1]]))
             => outcome[r][u] \in Terminal

\* C8: when the idempotency read fails with an error other than "not
\* found", the unit ends there: no scoring call, no upsert, nothing written,
\* the executed count unchanged, and the loop goes on with the next unit.
C8_ReadErrorSkipsUnit ==
  [][\A r \in Runs :
       (pc[r] = "check" /\ Stepped(r, "read_item") /\ io'[r] = "read_error")
         => /\ NothingDone(r)
            /\ outcome'[r][Unit(r)] = "CHECK_ERROR"
            /\ MovedOn(r)]_vars

\* A run has had a read error on a unit that has no record, left it without
\* one, and gone through the rest of the batch.
C8_Witness ==
  \E r \in Runs : \E u \in Units :
    /\ outcome[r][u] = "CHECK_ERROR"
    /\ Stored(UnitKey(variant[r], u), UnitTraceId(u)) = {}
    /\ pc[r] = "done"

\* C9 as stated: when the upsert of a unit fails, the upsert is called once,
\* the executed count is not incremented, the loop goes on with the next
\* unit, and no record for the pair is in the store.
C9_FailedUpsertLeavesNoRecord ==
  [][\A r \in Runs :
       (pc[r] = "persist" /\ Stepped(r, "upsert_item")
          /\ io'[r] = "write_error")
         => /\ executed_count'[r] = executed_count[r]
            /\ outcome'[r][Unit(r)] = "PERSIST_FAILED"
            /\ MovedOn(r)
            /\ {d \in store' : d.id = Key(r)
                                 /\ d.trace_id = TraceId(Trace(r))} = {}]_vars

\* C9, amended: when the upsert of a unit fails, the upsert is called once,
\* the executed count is not incremented, the loop goes on with the next
\* unit, and the store is as it was before the call: it has a record for the
\* pair only if another run has upserted one.
C9_FailedUpsertWritesNothing ==
  [][\A r \in Runs :
       (pc[r] = "persist" /\ Stepped(r, "upsert_item")
          /\ io'[r] = "write_error")
         => /\ executed_count'[r] = executed_count[r]
            /\ outcome'[r][Unit(r)] = "PERSIST_FAILED"
            /\ MovedOn(r)
            /\ store' = store
            /\ upserts' = upserts
            /\ Stored(Key(r), TraceId(Trace(r))) # {}
                 => \E i \in UpsertsOf(Key(r), TraceId(Trace(r))) :
                      upserts[i].run # r]_vars

\* The upsert of a unit has failed in one run while the store has the
\* record of the pair from an overlapping run.
C9_Witness ==
  \E r \in Runs : \E u \in Units :
    /\ outcome[r][u] = "PERSIST_FAILED"
    /\ io[r] = "write_error"
    /\ executed_count[r] = 0
    /\ PairRecords("af", u) # {}
    /\ \A i \in 1..Len(upserts) : upserts[i].run # r

\* The unit was read, found or not, and whatever was upserted was applied.
Attempted(r, u) == outcome[r][u] \in {"IDEMPOTENT_SKIP", "PERSISTED"}

\* C10: with the deliveries in sequence, if the upsert of a unit failed in
\* one run, the next delivery to pass sampling for the unit with the store
\* reachable (no run in between having persisted the pair) finds no record,
\* scores the pair again and persists the result.
C10_RedeliveryRetries ==
  \A r1, r2 \in Runs : \A u \in Units :
    (/\ r1 < r2
     /\ outcome[r1][u] = "PERSIST_FAILED"
     /\ \A r \in Runs : (r1 < r /\ r < r2) => outcome[r][u] # "PERSISTED"
     /\ Attempted(r2, u))
      => /\ outcome[r2][u] = "PERSISTED"
         /\ calls[r2].run_evaluator > 0
         /\ \E i \in UpsertsOf(UnitKey(variant[r2], u), UnitTraceId(u)) :
              upserts[i].run = r2
         /\ Cardinality(PairRecords(variant[r2], u)) = 1

\* The upsert of a unit failed in the first run and the redelivery persisted
\* the pair.
C10_Witness ==
  \E u \in Units :
    /\ outcome[1][u] = "PERSIST_FAILED"
    /\ outcome[2][u] = "PERSISTED"
    /\ Cardinality(PairRecords(variant[2], u)) = 1

\* Run r has called neither the scoring capability, nor the evaluations
\* container, nor the audit sink, and none of its units has got anywhere.
Untouched(r) ==
  /\ calls[r] = NoCalls
  /\ audit[r] = <<>>
  /\ \A u \in Units : outcome[r][u] = "PENDING"
  /\ \A i \in 1..Len(upserts) : upserts[i].run # r

\* C11: when the catalog query of a run fails, the run has left main at
\* once: no evaluator is processed (every unit is as it was), the scoring
\* capability is not called, the evaluations container is neither read nor
\* written, and no audit entry is emitted.
C11_LoadFailureEndsTheRun ==
  \A r \in Runs :
    io[r] = "query_error"
      => /\ pc[r] = "load_failed"
         /\ Untouched(r)

\* The catalog query of a run over a batch with a document and a catalog
\* with an evaluator has failed.
C11_Witness ==
  /\ io[1] = "query_error"
  /\ pc[1] = "load_failed"
  /\ documents # <<>>
  /\ catalog # <<>>

\* C13: when the batch has no documents, or the catalog query returns no
\* evaluator, the run returns without a call to the scoring capability, the
\* evaluations container or the audit sink: no record is written and no
\* audit entry emitted.
C13_NothingToRunIsNoOp ==
  \A r \in Runs :
    /\ (documents = <<>> /\ pc[r] # "start")
         => pc[r] = "done" /\ io[r] = "none" /\ Untouched(r) /\ store = {}
    /\ (evaluators[r] = <<>> /\ io[r] = "queried")
         => pc[r] = "done" /\ Untouched(r) /\ store = {}

\* The catalog query of a run over a batch with a document has returned no
\* evaluator, the container having a document of another status, and the
\* run has returned.
C13_Witness ==
  /\ documents # <<>>
  /\ catalog # <<>>
  /\ evaluators[1] = <<>>
  /\ io[1] = "queried"
  /\ pc[1] = "done"

\* The steps of a unit from the sampling gate on.
InUnit == {"delay", "resolve", "check", "score", "persist"}

\* C12: an evaluator without id or template id is skipped as a whole, in
\* both variants of main: no unit of it is past the sampling gate, none is
\* sampled out, checked, scored or persisted.
C12_InvalidEvaluatorSkippedWhole ==
  \A r \in Runs :
    /\ \A u \in Units :
         InvalidEvaluator(catalog[u[1]])
           => outcome[r][u] \in {"PENDING", "INVALID_EVALUATOR", "NO_ID"}
    /\ pc[r] \in InUnit => ~InvalidEvaluator(Ev(r))

\* The positions in the audit entries of run r of those of evaluator e.
EntriesOf(r, e) ==
  {i \in 1..Len(audit[r]) :
     \E k \in 0..trace_count :
       audit[r][i] = AuditEntry(catalog[e].id, k, trace_count)}

\* C14: in a run of azure-functions main, every evaluator whose pass over
\* the batch is finished has exactly one audit entry, the others none, so
\* the run has as many entries as evaluators it processed; the entry is the
\* one of the evaluator's id, its executed count and the number of documents
\* of the batch, whatever the executed count, zero included.
C14_OneAuditEntryPerEvaluator ==
  /\ [](\A r \in Runs :
          variant[r] = "af"
            => /\ \A e \in 1..Len(catalog) :
                    Cardinality(EntriesOf(r, e)) =
                      IF Runnable("af", catalog[e]) /\ Past(r, e) THEN 1 ELSE 0
               /\ Len(audit[r]) =
                    Cardinality({e \in 1..Len(catalog) :
                                   Runnable("af", catalog[e]) /\ Past(r, e)}))
  /\ [][\A r \in Runs :
          (pc[r] = "audit" /\ pc'[r] # "audit")
            => audit'[r] =
                 Append(audit[r],
                        AuditEntry(Ev(r).id, executed_count[r],
                                   Len(documents)))]_vars

\* A run over a catalog of four evaluators has returned with four audit
\* entries, one of them of an evaluator that executed nothing.
C14_Witness ==
  /\ variant[1] = "af"
  /\ pc[1] = "done"
  /\ Len(catalog) = 4
  /\ Len(audit[1]) = 4
  /\ \E e \in 1..Len(catalog) :
       /\ \A t \in 1..Len(documents) : outcome[1][<<e, t>>] = "SAMPLED_OUT"
       /\ \E i \in 1..4 : audit[1][i] = AuditEntry(catalog[e].id, 0, 1)

\* C15: the audit entry of an evaluator is there only when every unit of
\* the evaluator has ended, the run being past the evaluator; from then on
\* no unit of the evaluator changes its outcome, and no scoring call and no
\* upsert is made for the evaluator.
C15_AuditAfterAllUnits ==
  /\ [](\A r \in Runs : \A e \in 1..Len(catalog) :
          (variant[r] = "af" /\ EntriesOf(r, e) # {})
            => /\ \A t \in 1..Len(documents) :
                    outcome[r][<<e, t>>] \in Terminal
               /\ Past(r, e))
  /\ [][\A r \in Runs : \A e \in 1..Len(catalog) :
          (variant[r] = "af" /\ EntriesOf(r, e) # {})
            => /\ \A t \in 1..Len(documents) :
                    outcome'[r][<<e, t>>] = outcome[r][<<e, t>>]
               /\ (Stepped(r, "run_evaluator") \/ Stepped(r, "upsert_item"))
                    => Pos(r) # e]_vars

\* The audit entry of an evaluator is there, after its three units ended,
\* two of them persisted.
C15_Witness ==
  /\ variant[1] = "af"
  /\ Len(documents) = 3
  /\ EntriesOf(1, 1) # {}
  /\ outcome[1][<<1, 1>>] = "PERSISTED"
  /\ outcome[1][<<1, 2>>] = "IDEMPOTENT_SKIP"
  /\ outcome[1][<<1, 3>>] = "PERSISTED"

\* The upserts the container applied for run r and evaluator e.
UpsertedBy(r, e) ==
  {i \in 1..Len(upserts) :
     upserts[i].run = r /\ upserts[i].body.evaluator_id = catalog[e].id}

\* The batch of three traces and the evaluator with sampling_rate 1.0 and
\* delay 0, the record of (t2, e1) being in the container; in run r no
\* container call has failed.
Scenario(r) ==
  /\ documents = <<T1, T2, T3>>
  /\ catalog = <<EAlways>>
  /\ variant[r] = "af"
  /\ \A u \in Units : outcome[r][u] \notin {"CHECK_ERROR", "PERSIST_FAILED"}

\* C16: the executed count of an evaluator's audit entry is the number of
\* upserts the container applied for the evaluator in this run, which is the
\* number of its units that ended persisted, and the total is the number of
\* documents of the batch; in the scenario the entry reads 2/3, t1 and t3
\* have got records, and the record of t2 is the one that was there.
C16_AuditCountsSuccessfulUpserts ==
  \A r \in Runs :
    variant[r] = "af"
      => /\ \A e \in 1..Len(catalog) : \A i \in EntriesOf(r, e) :
              /\ audit[r][i] =
                   AuditEntry(catalog[e].id, Cardinality(UpsertedBy(r, e)),
                              Len(documents))
              /\ Cardinality(UpsertedBy(r, e)) =
                   Cardinality({t \in 1..Len(documents) :
                                  outcome[r][<<e, t>>] = "PERSISTED"})
         /\ documents = <<T1, T2, T3>> => PriorRecord \in store
         /\ (Scenario(r) /\ pc[r] = "done")
              => /\ Len(audit[r]) = 1
                 /\ audit[r][1].details = "Ran evaluator 'e1' on 2/3 traces"
                 /\ Stored("t2:e1", "t2") = {PriorRecord}
                 /\ Cardinality(Stored("t1:e1", "t1")) = 1
                 /\ Cardinality(Stored("t3:e1", "t3")) = 1
                 /\ Cardinality(store) = 3

\* The run of the scenario has returned, with its audit entry.
C16_Witness ==
  /\ Scenario(1)
  /\ pc[1] = "done"
  /\ audit[1] = <<AuditEntry("e1", 2, 3)>>
  /\ PriorRecord \in store

\* Run r is at the sampling gate of a unit: the trace has an identity and
\* the evaluator is one main runs.
AtGate(r) ==
  /\ pc[r] = (IF variant[r] = "af" THEN "trace" ELSE "ev")
  /\ ei[r] \in 1..Len(evaluators[r])
  /\ ti[r] \in 1..Len(documents)
  /\ TraceId(Trace(r)) # None
  /\ Runnable(variant[r], Ev(r))

\* Run r has taken a step of its loops.
Moved(r) == <<pc'[r], ei'[r], ti'[r]>> # <<pc[r], ei[r], ti[r]>>

\* C17: for an evaluator with sampling_rate 0.0 no unit is executed,
\* whatever random.random() gives: no unit of it is past the sampling gate,
\* and every unit of it is pending, without identity, or sampled out.
C17_RateZeroRunsNothing ==
  \A r \in Runs :
    /\ \A u \in Units :
         catalog[u[1]].sampling_rate = Number(0)
           => outcome[r][u] \in {"PENDING", "NO_ID", "SAMPLED_OUT"}
    /\ (pc[r] \in InUnit /\ ei[r] \in 1..Len(evaluators[r]))
         => Ev(r).sampling_rate # Number(0)

\* The outcomes of a unit that has reached the idempotency check.
Checked == {"CHECK_ERROR", "IDEMPOTENT_SKIP", "PERSISTED", "PERSIST_FAILED"}

\* C18: for an evaluator with sampling_rate 1.0 in azure-functions main,
\* every unit whose trace has an identity passes the sampling gate whatever
\* random.random() gives, and goes from the gate to the idempotency check:
\* once the evaluator's pass is over, each such unit has been checked.
C18_RateOneChecksEveryTrace ==
  /\ [][\A r \in Runs :
          (variant[r] = "af" /\ AtGate(r) /\ Moved(r)
             /\ Ev(r).sampling_rate = Number(10))
            => /\ pc'[r] = "delay"
               /\ ei'[r] = ei[r] /\ ti'[r] = ti[r]
               /\ IsNum(drawn'[r])]_vars
  /\ [][\A r \in Runs :
          (variant[r] = "af" /\ pc[r] = "delay" /\ pc'[r] # pc[r]
             /\ Ev(r).sampling_rate = Number(10))
            => pc'[r] = "check" /\ ei'[r] = ei[r] /\ ti'[r] = ti[r]]_vars
  /\ [](\A r \in Runs : \A u \in Units :
          (/\ variant[r] = "af"
           /\ catalog[u[1]].sampling_rate = Number(10)
           /\ Runnable("af", catalog[u[1]])
           /\ UnitTraceId(u) # None
           /\ PassOver(r, u[1]))
            => outcome[r][u] \in Checked)

\* The run has drawn three times for the evaluator with sampling_rate 1.0,
\* and the pass of the evaluator has ended with its three units checked.
C18_Witness ==
  /\ variant[1] = "af"
  /\ catalog = <<EAlways>>
  /\ calls[1].random = 3
  /\ calls[1].read_item = 3
  /\ pc[1] = "done"
  /\ \A t \in 1..3 : outcome[1][<<1, t>>] \in Checked

\* C19: the sampling gate makes one call of random.random() per unit, and
\* lets the unit go on if and only if the value drawn is at most the
\* evaluator's sampling_rate (a rate of [0, 1]); no other step draws.
C19_GateIsDrawAtMostRate ==
  /\ [][\A r \in Runs :
          (AtGate(r) /\ Moved(r)
             /\ Ev(r).sampling_rate.kind = "num"
             /\ Ev(r).sampling_rate.val \in 0..10)
            => /\ Stepped(r, "random")
               /\ IsNum(drawn'[r])
               /\ Val(drawn'[r]) \in Draws
               /\ IF Val(drawn'[r]) <= Ev(r).sampling_rate.val
                  THEN /\ pc'[r] = "delay"
                       /\ ei'[r] = ei[r] /\ ti'[r] = ti[r]
                       /\ outcome'[r] = outcome[r]
                  ELSE /\ outcome'[r][Unit(r)] = "SAMPLED_OUT"
                       /\ MovedOn(r)]_vars
  /\ [][\A r \in Runs :
          calls'[r].random # calls[r].random
            => AtGate(r) /\ Stepped(r, "random")]_vars

\* A unit is past the gate on a draw equal to the rate of its evaluator,
\* the one draw of the run so far.
C19_Witness ==
  \E r \in Runs :
    /\ pc[r] = "delay"
    /\ Ev(r).sampling_rate = Number(5)
    /\ drawn[r] = Num(5)
    /\ calls[r].random = 1

\* sampling_rate is not configured, or is configured outside [0, 1].
NoValidRate(ev) ==
  \/ ev.sampling_rate.kind = "absent"
  \/ ev.sampling_rate.kind = "num"
       /\ (ev.sampling_rate.val < 0 \/ ev.sampling_rate.val > 10)

\* C20: an evaluator whose sampling_rate is missing, negative or greater
\* than 1 is treated as one with sampling_rate 1.0, in both variants of
\* main: none of its units is sampled out.
C20_BadRateNeverSamplesOut ==
  \A r \in Runs : \A u \in Units :
    NoValidRate(catalog[u[1]]) => outcome[r][u] # "SAMPLED_OUT"

\* The terminal outcomes of a unit of a valid evaluator.
UnitOutcomes ==
  {"SAMPLED_OUT", "IDEMPOTENT_SKIP", "CHECK_ERROR", "PERSISTED",
   "PERSIST_FAILED"}

\* C21: in a run of azure-functions main an outcome, once given to a unit,
\* is not changed, and a run that has loaded the catalog and left main has
\* taken every unit of a valid evaluator it loaded and a trace with an
\* identity to one
\* of the outcomes sampled out, idempotent skip, skip on check error,
\* persisted and persist failed.
C21_EveryUnitEndsOnce ==
  /\ [][\A r \in Runs : \A u \in Units :
          outcome'[r][u] # outcome[r][u] => outcome[r][u] = "PENDING"]_vars
  /\ [](\A r \in Runs : \A u \in Units :
          (/\ variant[r] = "af"
           /\ pc[r] \in Ended
           /\ io[r] # "query_error"
           /\ u[1] \in Loaded(r)
           /\ Runnable("af", catalog[u[1]])
           /\ UnitTraceId(u) # None)
            => outcome[r][u] \in UnitOutcomes)

\* C22: the step of the sampling gate that rejects a unit ends the unit: it
\* makes no call of sleep, read_item, run_evaluator or upsert_item, leaves
\* the container, the audit entries and the executed count as they were,
\* and moves the loop to the next unit; the unit stays sampled out.
C22_SampledOutTouchesNothing ==
  /\ [][\A r \in Runs :
          (AtGate(r) /\ Moved(r) /\ outcome'[r][Unit(r)] = "SAMPLED_OUT")
            => /\ calls'[r].sleep = calls[r].sleep
               /\ calls'[r].read_item = calls[r].read_item
               /\ NothingDone(r)
               /\ upserts' = upserts
               /\ audit' = audit
               /\ MovedOn(r)]_vars
  /\ [][\A r \in Runs : \A u \in Units :
          outcome[r][u] = "SAMPLED_OUT"
            => outcome'[r][u] = "SAMPLED_OUT"]_vars

\* The unit of an evaluator with a delay of 20 ms has been sampled out, and
\* the run, at the next evaluator, has neither slept nor read.
C22_Witness ==
  /\ Len(catalog) = 4
  /\ catalog[1] = ENever
  /\ outcome[1][<<1, 1>>] = "SAMPLED_OUT"
  /\ variant[1] = "af"
  /\ ei[1] = 2
  /\ calls[1].sleep = 0
  /\ calls[1].read_item = 0

\* C23: when the template id of an evaluator resolves to no scoring
\* capability, none of its units is scored or persisted, in either variant
\* of main: the container has no record of the pair, not even a failed one.
C23_UnresolvedTemplateWritesNothing ==
  \A r \in Runs : \A u \in Units :
    catalog[u[1]].template_id \notin EVALUATORS
      => /\ outcome[r][u] \notin {"PERSISTED", "PERSIST_FAILED"}
         /\ PairRecords(variant[r], u) = {}
         /\ ~(pc[r] \in {"score", "persist"} /\ Unit(r) = u)

\* The evaluators of the catalog a record is of: by evaluator_id in the
\* documents of azure-functions main, by evaluator_name in the backend's.
EvaluatorsOf(d) ==
  {e \in 1..Len(catalog) :
     IF "evaluator_id" \in DOMAIN d
     THEN d.evaluator_id = catalog[e].id
     ELSE d.evaluator_name = catalog[e].score_name}

\* C24: every record the container was given has the id trace_id, ":",
\* evaluator_id of its evaluator; the document a run upserts has the id the
\* run read with; and, the two variants of main writing to the same
\* container, a pair that one delivery persisted is found by the later
\* deliveries, which neither score nor upsert it again.
C24_OneKeyAcrossVariants ==
  /\ \A i \in 1..Len(upserts) :
       \A e \in EvaluatorsOf(upserts[i].body) :
         upserts[i].body.id = EvalId(upserts[i].body.trace_id, catalog[e].id)
  /\ \A r \in Runs : pc[r] = "persist" => doc[r].id = Key(r)
  /\ \A r1, r2 \in Runs : \A u \in Units :
       (r1 < r2 /\ outcome[r1][u] = "PERSISTED")
         => outcome[r2][u] \notin {"PERSISTED", "PERSIST_FAILED"}

\* The records of the container written by azure-functions main.
AfRecords == {d \in store : "classification" \in DOMAIN d}

\* C25: every record azure-functions main persisted has status "failed" if
\* its classification is "failed", and status "completed" if it is anything
\* else, None included.
C25_StatusIffClassificationFailed ==
  \A d \in AfRecords :
    /\ d.status \in {"failed", "completed"}
    /\ d.status = "failed" <=> d.classification = "failed"

\* The container has a completed record with no classification, a
\* completed one classified "pass", and a failed one.
C25_Witness ==
  \E d1, d2, d3 \in AfRecords :
    /\ d1.classification = None /\ d1.status = "completed"
    /\ d2.classification = "pass" /\ d2.status = "completed"
    /\ d3.classification = "failed" /\ d3.status = "failed"

\* C30: the score of a record azure-functions main persisted, for a result
\* the scoring capability returned, is the returned score at 2 decimal
\* places when that is a number (a multiple of 0.01 at most 0.005 away;
\* 0.83 for 0.8333333, 0.17 for 0.165, whose float is above it), and the
\* returned score itself when it is None.
C30_ScoreRoundedToTwoPlaces ==
  \A d \in AfRecords : \A o \in EngineOutcomes :
    (~o.raised /\ d.raw_output = o.result.raw_output)
      => IF IsNum(o.result.score)
         THEN /\ IsNum(d.score)
              /\ Val(d.score) % 100 = 0
              /\ Val(d.score) - Val(o.result.score) \in -50..50
              /\ o.result.score = Num(8333) => d.score = Num(8300)
              /\ o.result.score = Num(1650) => d.score = Num(1700)
         ELSE d.score = o.result.score

\* The container has the record of a returned score of 0.8333333, of one of
\* 0.165 and of one of None.
C30_Witness ==
  \E d1, d2, d3 \in AfRecords :
    /\ d1.raw_output = "0.8333333" /\ d1.score = Num(8300)
    /\ d2.raw_output = "0.165" /\ d2.score = Num(1700)
    /\ d3.raw_output = "no result" /\ d3.score = NoNum

\* C26: a call of call_llm whose remote call raised on every attempt has
\* made max_retries + 1 attempts (3 with max_retries = 2) when it returns,
\* and returns None.
C26_AllAttemptsFailReturnsNone ==
  (llm_pc = "returned" /\ failures = created)
    => created = max_retries + 1 /\ returned = NoText

\* The call with the default max_retries has returned after three attempts
\* that all raised.
C26_Witness ==
  /\ llm_pc = "returned"
  /\ max_retries = DefaultMaxRetries
  /\ created = 3
  /\ failures = 3
  /\ returned = NoText

\* C27: the k-th wait of a call of call_llm is 2^k seconds, k being the
\* value of attempt after the k-th failure, so each wait is longer than the
\* one before; every wait comes after a failed attempt and before another
\* attempt: when the call has returned it has waited one time less than it
\* has attempted.
C27_BackoffBetweenAttemptsOnly ==
  /\ \A k \in 1..Len(slept) :
       /\ slept[k] = 2 ^ k
       /\ k > 1 => slept[k] > slept[k - 1]
  /\ llm_pc = "sleep" => attempt = Len(slept) + 1 /\ created = attempt
  /\ (llm_pc = "while" /\ slept # <<>>)
       => attempt <= max_retries /\ Len(slept) = created
  /\ llm_pc = "create" => Len(slept) = created
  /\ llm_pc = "returned"
       => Len(slept) = IF created = 0 THEN 0 ELSE created - 1

\* The call has returned a text on its third attempt, after waits of 2 and
\* 4 seconds.
C27_Witness ==
  /\ llm_pc = "returned"
  /\ returned.some
  /\ failures = 2
  /\ slept = <<2, 4>>

\* C28: the attempt of call_llm whose response has no text (None or "")
\* makes the call return None there and then: attempt is not incremented,
\* there is no wait, and no step follows the return.
C28_EmptyResponseReturnsNone ==
  /\ [][(created' = created + 1 /\ response'.kind = "content"
           /\ Falsy(response'.content))
          => /\ llm_pc' = "returned"
             /\ returned' = NoText
             /\ attempt' = attempt
             /\ slept' = slept]_vars
  /\ [][llm_pc = "returned" => UNCHANGED llmVars]_vars

\* The call has returned None on an empty response to its second attempt,
\* with retries left.
C28_Witness ==
  /\ llm_pc = "returned"
  /\ response = [kind |-> "content", content |-> Text(<<>>)]
  /\ returned = NoText
  /\ created = 2
  /\ attempt < max_retries
  /\ slept = <<2>>

\* C29: a call of call_llm, whatever max_retries and whatever the remote
\* calls do, never leaves by an exception, makes at most max_retries + 1
\* attempts, and in the end returns, None or a text.
C29_CallLlmAlwaysReturns ==
  /\ [](llm_pc \in {"while", "create", "sleep", "returned"})
  /\ [](created <= IF max_retries < 0 THEN 0 ELSE max_retries + 1)
  /\ [](llm_pc = "returned"
          => \/ returned = NoText
             \/ returned.some /\ response.kind = "content"
                  /\ returned.chars = Strip(response.content.chars))
  /\ <>(llm_pc = "returned")

\* The call has returned the stripped text of its last allowed attempt,
\* every attempt before having raised.
C29_Witness ==
  /\ llm_pc = "returned"
  /\ max_retries > 0
  /\ created = max_retries + 1
  /\ failures = max_retries
  /\ returned = Text(<<48, 46, 56>>)

\* A text field that is absent, null or the empty str, and the value a
\* field has for a reader of the document: "" when the key is absent.
AbsentOrEmpty(v) == v.kind \in {"absent", "null"} \/ v.val = ""
FieldOf(v) == IF v.kind = "absent" THEN Str("") ELSE v

\* C31: every dict normalize_trace returns for a trace has input =
\* trace.input, or trace.question when input is absent or empty; response =
\* output = trace.output, or trace.answer when output is absent or empty;
\* context = trace.context; _raw is the trace; every call on the same trace
\* returns the same dict, and no call changes the trace.
C31_NormalizeTraceIsPure ==
  /\ [](\A k \in 1..Len(normalized) :
          LET n == normalized[k]
          IN  /\ n.input = IF AbsentOrEmpty(n_trace.input)
                           THEN FieldOf(n_trace.question)
                           ELSE n_trace.input
              /\ n.output = IF AbsentOrEmpty(n_trace.output)
                            THEN FieldOf(n_trace.answer)
                            ELSE n_trace.output
              /\ n.response = n.output
              /\ n.context = FieldOf(n_trace.context)
              /\ n._raw = n_trace
              /\ n = normalized[1])
  /\ [][n_trace' = n_trace]_vars

\* normalize_trace has been called twice on a trace with an empty input, a
\* question, no output and an answer, and took the question and the answer.
C31_Witness ==
  /\ Len(normalized) = 2
  /\ n_trace.input = Str("")
  /\ n_trace.question = Str("q")
  /\ n_trace.output = NoKey
  /\ n_trace.answer = Str("ans")
  /\ n_trace.context = Str("ctx")
  /\ normalized[2].input = Str("q")
  /\ normalized[2].response = Str("ans")
  /\ normalized[2].output = Str("ans")
  /\ normalized[2].context = Str("ctx")

\* The outcomes of a unit that got past the sampling gate, and an evaluator
\* with a delay configured.
PastGate ==
  {"UNRESOLVED", "CHECK_ERROR", "IDEMPOTENT_SKIP", "PERSISTED",
   "PERSIST_FAILED"}
Delays(ev) == ev.delay_ms.kind = "num" /\ ev.delay_ms.val > 0

\* The units of run r that got past the sampling gate with a delay
\* configured and have ended.
DelayedEnded(r) ==
  {u \in Units : outcome[r][u] \in PastGate /\ Delays(catalog[u[1]])}

\* C32: the steps of a unit come in the order sampling, delay, idempotency
\* check, scoring, upsert, in both variants.  A unit gets to its delay only
\* by the step that draws at the sampling gate; when it is at or past its
\* idempotency check its delay has been slept, whether or not its record is
\* found; read_item is called only at the check; the scoring call is made
\* only when the read of the same unit returned "not found" and leads to the
\* upsert of the same unit; upsert_item is called only with the document
\* built from the finished scoring call of the same unit.
C32_UnitStepsInOrder ==
  /\ [](\A r \in Runs :
          calls[r].sleep =
            Cardinality(DelayedEnded(r))
              + (IF pc[r] \in {"resolve", "check", "score", "persist"}
                 THEN (IF Delays(Ev(r)) THEN 1 ELSE 0)
                 ELSE 0))
  /\ [][\A r \in Runs :
          /\ (pc'[r] = "delay" /\ pc[r] # "delay")
               => /\ Stepped(r, "random")
                  /\ pc[r] = IF variant[r] = "af" THEN "trace" ELSE "ev"
                  /\ Unit(r)' = Unit(r)
          /\ Stepped(r, "sleep") => pc[r] = "delay"
          /\ (pc'[r] = "resolve" /\ pc[r] # "resolve")
               => pc[r] = "delay" /\ Unit(r)' = Unit(r)
          /\ (pc'[r] = "check" /\ pc[r] # "check")
               => /\ pc[r] = IF variant[r] = "af" THEN "delay" ELSE "resolve"
                  /\ Unit(r)' = Unit(r)
          /\ Stepped(r, "read_item") => pc[r] = "check"
          /\ (pc'[r] = "score" /\ pc[r] # "score")
               => /\ pc[r] = "check"
                  /\ Stepped(r, "read_item")
                  /\ io'[r] = "not_found"
                  /\ Unit(r)' = Unit(r)
          /\ Stepped(r, "run_evaluator")
               => /\ pc[r] = "score"
                  /\ io[r] = "not_found"
                  /\ pc'[r] = "persist"
                  /\ doc'[r].id = Key(r)
                  /\ Unit(r)' = Unit(r)
          /\ (pc'[r] = "persist" /\ pc[r] # "persist")
               => Stepped(r, "run_evaluator")
          /\ Stepped(r, "upsert_item")
               => /\ pc[r] = "persist"
                  /\ doc[r].id = Key(r)
                  /\ outcome'[r][Unit(r)] \in {"PERSISTED", "PERSIST_FAILED"}
          /\ \A u \in Units :
               (outcome'[r][u] # outcome[r][u]
                  /\ outcome'[r][u] \in {"IDEMPOTENT_SKIP", "CHECK_ERROR"})
                 => pc[r] = "check" /\ u = Unit(r)]_vars

\* The redelivery of the batch has slept the 20 ms of evaluator e2 before
\* it found the record of (t1, e2), which the first delivery persisted, and
\* skipped the unit without scoring.
C32_Witness ==
  /\ Len(catalog) = 3
  /\ outcome[1][<<1, 1>>] = "PERSISTED"
  /\ outcome[2][<<1, 1>>] = "IDEMPOTENT_SKIP"
  /\ outcome[2][<<1, 2>>] = "PENDING"
  /\ calls[2].sleep = 1
  /\ calls[2].read_item = 1
  /\ calls[2].run_evaluator = 0

\* Every record of the store was written by an upsert of the behaviour: the
\* store was empty before the run.
StartedEmpty ==
  \A d \in store :
    \E i \in 1..Len(upserts) :
      upserts[i].body.id = d.id /\ upserts[i].body.trace_id = d.trace_id

\* Every evaluator run 1 loaded is valid, resolvable and at sampling_rate
\* 1.0, no two have the same id, and the traces of the batch have
\* identities, no two the same.
AllRunnable ==
  /\ \A e \in Loaded(1) :
       /\ ~InvalidEvaluator(catalog[e])
       /\ catalog[e].score_name # None
       /\ catalog[e].template_id \in EVALUATORS
       /\ catalog[e].sampling_rate = Number(10)
  /\ \A e1, e2 \in Loaded(1) :
       catalog[e1].id = catalog[e2].id => e1 = e2
  /\ \A t1, t2 \in 1..Len(documents) :
       /\ TraceId(documents[t1]) # None
       /\ TraceId(documents[t1]) = TraceId(documents[t2]) => t1 = t2

\* Run r has returned from main with no failure of the catalog query, of a
\* read, of a scoring call or of an upsert.
FailureFree(r) ==
  /\ pc[r] = "done"
  /\ raisedAt[r] = {}
  /\ \A u \in Units : outcome[r][u] \notin {"CHECK_ERROR", "PERSIST_FAILED"}

\* C33: after one failure-free run over an empty store, with every
\* evaluator valid, resolvable and at sampling_rate 1.0, the store holds
\* |traces| x |evaluators| records, one for each pair of a trace and an
\* evaluator the run loaded:
\* every unit was persisted, none was skipped on the record of another
\* evaluator, in both variants.
C33_OneRecordPerPairAfterOneRun ==
  (AllRunnable /\ StartedEmpty /\ FailureFree(1) /\ evaluators[1] # <<>>)
    => LET units == {u \in Units : u[1] \in Loaded(1)}
       IN  /\ Cardinality(store) = Len(documents) * Len(evaluators[1])
           /\ \A u \in units :
                /\ outcome[1][u] = "PERSISTED"
                /\ Cardinality(Stored(UnitKey(variant[1], u),
                                      UnitTraceId(u))) = 1
           /\ \A u1, u2 \in units :
                UnitKey(variant[1], u1) = UnitKey(variant[1], u2) => u1 = u2

\* Run r is in the pass of an evaluator over the batch, and the units of
\* that pass that have ended.
InPass(r) ==
  variant[r] = "af"
    /\ pc[r] \in {"trace", "delay", "check", "score", "persist", "audit"}
Processed(r) == {u \in Units : u[1] = Pos(r) /\ outcome[r][u] # "PENDING"}

\* C36: at every point of an evaluator's pass over the batch its
\* executed_count is at most the number of its units already processed,
\* and every audit entry reads "... on k/n traces" with n the trace count
\* of the batch and 0 <= k <= n.
C36_ExecutedCountBounded ==
  \A r \in Runs :
    /\ InPass(r)
         => /\ 0 <= executed_count[r]
            /\ executed_count[r] <= Cardinality(Processed(r))
            /\ Cardinality(Processed(r)) <= trace_count
    /\ \A i \in 1..Len(audit[r]) :
         \E e \in 1..Len(catalog), k \in 0..trace_count :
           audit[r][i] = AuditEntry(catalog[e].id, k, trace_count)

\* The run is at the idempotency check of the third trace, the first was
\* persisted and the second skipped on its record: one unit executed, two
\* processed.
C36_Witness ==
  /\ variant[1] = "af"
  /\ Len(documents) = 3
  /\ pc[1] = "check"
  /\ ti[1] = 3
  /\ outcome[1][<<1, 1>>] = "PERSISTED"
  /\ outcome[1][<<1, 2>>] = "IDEMPOTENT_SKIP"
  /\ executed_count[1] = 1

\* The document at position t of the batch has neither trace_id nor id, and
\* run r is at such a document in its loop over the batch.
NoIdentity(t) == documents[t].trace_id = None /\ documents[t].id = None
AtTraceWithoutId(r) ==
  /\ pc[r] = "trace"
  /\ ti[r] \in 1..Len(documents)
  /\ NoIdentity(ti[r])

\* C37: a record written for a trace has the trace's trace_id as its
\* trace_id, or the trace's id when it has no trace_id.  The step of a run
\* at a document with neither makes no call (no draw, no read, no scoring,
\* no upsert, no sleep), leaves the store as it is, and goes on to the next
\* document of the batch; the units of such a document end in no outcome
\* but the skip; every audit entry has the length of the whole batch as its
\* trace count.
C37_TraceWithoutIdentitySkipped ==
  /\ [](\A i \in 1..Len(upserts) :
          \E t \in 1..Len(documents) :
            /\ ~NoIdentity(t)
            /\ upserts[i].body.trace_id =
                 IF documents[t].trace_id # None THEN documents[t].trace_id
                 ELSE documents[t].id)
  /\ [](\A r \in Runs :
          /\ \A u \in Units :
               NoIdentity(u[2])
                 => outcome[r][u] \in {"PENDING", "NO_ID", "INVALID_EVALUATOR"}
          /\ \A i \in 1..Len(audit[r]) :
               \E e \in 1..Len(catalog), k \in 0..Len(documents) :
                 audit[r][i].details =
                   AuditDetails(catalog[e].id, k, Len(documents)))
  /\ [][\A r \in Runs :
          (AtTraceWithoutId(r) /\ Moved(r))
            => /\ calls'[r] = calls[r]
               /\ store' = store
               /\ upserts' = upserts
               /\ ti'[r] = ti[r] + 1
               /\ pc'[r] = "trace"
               /\ \A u \in Units :
                    outcome'[r][u] # outcome[r][u]
                      => u[2] = ti[r] /\ outcome'[r][u] = "NO_ID"]_vars

\* The run of azure-functions main over a document with no identity and
\* the trace t1 has returned: for the valid evaluator e1 the first was
\* skipped, t1 was persisted after one draw, and the audit entry counts two
\* traces.
C37_Witness ==
  /\ variant[1] = "af"
  /\ pc[1] = "done"
  /\ Len(documents) = 2
  /\ NoIdentity(1)
  /\ outcome[1][<<2, 1>>] = "NO_ID"
  /\ outcome[1][<<2, 2>>] = "PERSISTED"
  /\ calls[1].random = 1
  /\ calls[1].read_item = 1
  /\ \E d \in store : d.id = "t1:e1" /\ d.trace_id = "t1"
  /\ audit[1] = <<AuditEntry("e1", 1, 2)>>

\* C38: when the attempts 1..k-1 of a call of call_llm raised and attempt k
\* returned a non-empty text, the call returns at that attempt: k attempts
\* were made, k <= max_retries + 1, k - 1 waits were slept, and the value
\* returned is the text with the whitespace at its ends removed.
C38_FirstTextEndsTheCall ==
  /\ [][(created' = created + 1 /\ response'.kind = "content"
           /\ ~Falsy(response'.content))
          => llm_pc' = "returned" /\ returned'.some]_vars
  /\ []((llm_pc = "returned" /\ returned.some)
          => /\ response.kind = "content"
             /\ created = failures + 1
             /\ created <= max_retries + 1
             /\ Len(slept) = failures
             /\ returned.chars =
                  LET cs == response.content.chars
                  IN  IF cs = <<32>> THEN <<>>
                      ELSE IF cs \in {<<32, 48, 46, 56, 10>>,
                                      <<48, 46, 56, 13, 10>>}
                      THEN <<48, 46, 56>>
                      ELSE IF cs = <<11, 55, 12>> THEN <<55>>
                      ELSE IF cs = <<160, 55, 32, 56, 8195>>
                      THEN <<55, 32, 56>>
                      ELSE cs)

\* The call has returned "0.8" on its second attempt, which gave " 0.8\n",
\* after one failed attempt and one wait.
C38_Witness ==
  /\ llm_pc = "returned"
  /\ response.content = Text(<<32, 48, 46, 56, 10>>)
  /\ returned = Text(<<48, 46, 56>>)
  /\ created = 2
  /\ failures = 1
  /\ slept = <<2>>

\* The calls of get_next_trace_number that have returned: the k-th call of
\* invocation p is <<p, k>>.
ReturnedCalls ==
  UNION {{<<p, k>> : k \in 1..Len(got[p])} : p \in Invocations}

\* C34: with overlapping invocations of TraceGenerator.main, no two calls of
\* get_next_trace_number have returned the same trace number.
C34_TraceNumbersAreUnique ==
  \A c1, c2 \in ReturnedCalls :
    got[c1[1]][c1[2]] = got[c2[1]][c2[2]] => c1 = c2

\* The numbers get_next_trace_number has returned, in the order of the
\* calls, when the invocations come one after the other.
RECURSIVE ReturnedUpTo(_)
ReturnedUpTo(p) == IF p = 0 THEN <<>> ELSE ReturnedUpTo(p - 1) \o got[p]

\* C35: called sequentially, get_next_trace_number returns 1 when the
\* counter document does not exist and the stored value plus 1 otherwise,
\* and leaves the number it returns as the stored value: the k-th call that
\* returns, on a fresh store, returns k.
C35_SequentialCallsCountUp ==
  /\ [][\A p \in Invocations :
          Len(got'[p]) > Len(got[p])
            => LET n == got'[p][Len(got'[p])]
               IN  /\ n = IF counter = NoNum THEN 1 ELSE Val(counter) + 1
                   /\ counter' = Num(n)]_vars
  /\ [](LET all == ReturnedUpTo(MaxInvocations)
        IN  /\ \A k \in 1..Len(all) : all[k] = k
            /\ counter = IF all = <<>> THEN NoNum ELSE Num(Len(all)))

\* Two invocations, one after the other, have returned from main: the
\* first generated the traces 1 and 2, the second the traces 3, 4 and 5.
C35_Witness ==
  /\ g_pc[1] = "done"
  /\ g_pc[2] = "done"
  /\ got[1] = <<1, 2>>
  /\ got[2] = <<3, 4, 5>>
  /\ counter = Num(5)
  /\ traces = {"trace-0001", "trace-0002", "trace-0003", "trace-0004",
               "trace-0005"}
====
